---- MODULE Spec2Model ----
(***************************************************************************)
(* ResumeAI Helper: the Streamlit session (app.py) and the analysis        *)
(* functions it calls (utils.py), together with the heuristic ATS engine   *)
(* described by the specification.                                         *)
(*                                                                         *)
(* Strings are sequences of chunks.  A chunk is a TLA+ string: " " is one  *)
(* whitespace character, any other chunk is a whitespace-free piece of     *)
(* text (one character in the strings that are parsed as numbers, a whole  *)
(* word or message elsewhere).  The empty Python string is << >>.          *)
(***************************************************************************)
EXTENDS Integers, Sequences, FiniteSets, TLC

VARIABLES
    resume_text,          \* st.session_state.resume_text
    job_text,             \* st.session_state.job_text
    analysis_results,     \* st.session_state.analysis_results (optional dict)
    cover_letter,         \* st.session_state.cover_letter (optional string)
    ats_results,          \* st.session_state.ats_results (optional dict)
    analysis_history,     \* st.session_state.analysis_history (list of entries)
    current_analysis_id,  \* st.session_state.current_analysis_id (NoId for None)
    now,                  \* the wall clock read by datetime.now()
    widgets,              \* what the uploaders, the radio and the text area of tab 1 hold
    saved,                \* history variable: entries saved since the history was last empty
    ats_call,             \* history variable: the latest analyze_ats_score invocation
    ats_mark,             \* history variable: an earlier analyze_ats_score invocation
    inp,                  \* the input drawn for the function under analysis
    eng_out,              \* result of the heuristic engine on inp
    out                   \* result of the utils.py or app.py function applied to inp

vars == <<resume_text, job_text, analysis_results, cover_letter, ats_results,
          analysis_history, current_analysis_id, now, widgets, saved, ats_call, ats_mark,
          inp, eng_out, out>>

sessionVars == <<resume_text, job_text, analysis_results, cover_letter, ats_results,
                 analysis_history, current_analysis_id, now, widgets, saved>>

(***************************************************************************)
(* Bounds of the model.                                                    *)
(***************************************************************************)
MaxSaves == 12

MaxStrLen == 3

MaxTokens == 2

MaxWords == 3

\* the number of analyses per history that find the backend down
MaxFailed == 1

\* the number of ATS analyses in one session
MaxCalls == 3

(***************************************************************************)
(* Python strings.                                                         *)
(***************************************************************************)
EmptyStr == << >>

\* bool(s) of a Python string
Truthy(s) == Len(s) > 0

RECURSIVE LStrip(_)
LStrip(s) == IF Len(s) > 0 /\ Head(s) = " " THEN LStrip(Tail(s)) ELSE s

RECURSIVE RStrip(_)
RStrip(s) ==
    IF Len(s) > 0 /\ s[Len(s)] = " " THEN RStrip(SubSeq(s, 1, Len(s) - 1)) ELSE s

\* str.strip()
Strip(s) == RStrip(LStrip(s))

\* len(s.split()): the number of maximal whitespace-free runs
WordCount(s) ==
    Cardinality({i \in 1..Len(s) : s[i] # " " /\ (i = 1 \/ s[i - 1] = " ")})

Digits == {"0", "1", "2", "3", "4", "5", "6", "7", "8", "9"}

DigitVal(c) ==
    CASE c = "0" -> 0 [] c = "1" -> 1 [] c = "2" -> 2 [] c = "3" -> 3 [] c = "4" -> 4
      [] c = "5" -> 5 [] c = "6" -> 6 [] c = "7" -> 7 [] c = "8" -> 8 [] c = "9" -> 9

DigitChar(d) == <<"0", "1", "2", "3", "4", "5", "6", "7", "8", "9">>[d + 1]

RECURSIVE DigitsVal(_)
DigitsVal(s) ==
    IF Len(s) = 0 THEN 0
    ELSE IF s[Len(s)] = "_" THEN DigitsVal(SubSeq(s, 1, Len(s) - 1))
    ELSE 10 * DigitsVal(SubSeq(s, 1, Len(s) - 1)) + DigitVal(s[Len(s)])

\* int(s) of a Python string: surrounding whitespace and one sign are
\* accepted, then decimal digits with single underscores between digits;
\* anything else is a ValueError (ok = FALSE).
PyInt(s) ==
    LET t == Strip(s)
        signed == Len(t) > 0 /\ Head(t) \in {"+", "-"}
        body == IF signed THEN Tail(t) ELSE t
        wellFormed ==
            /\ Len(body) > 0
            /\ \A i \in 1..Len(body) : body[i] \in Digits \cup {"_"}
            /\ body[1] \in Digits
            /\ body[Len(body)] \in Digits
            /\ \A i \in 1..(Len(body) - 1) : ~(body[i] = "_" /\ body[i + 1] = "_")
    IN  IF ~wellFormed THEN [ok |-> FALSE, n |-> 0]
        ELSE [ok |-> TRUE,
              n |-> IF signed /\ Head(t) = "-" THEN 0 - DigitsVal(body) ELSE DigitsVal(body)]

RECURSIVE NatToStr(_)
NatToStr(n) ==
    IF n < 10 THEN <<DigitChar(n)>> ELSE NatToStr(n \div 10) \o <<DigitChar(n % 10)>>

\* str(n) of a Python int
IntToStr(n) == IF n < 0 THEN <<"-">> \o NatToStr(0 - n) ELSE NatToStr(n)

(***************************************************************************)
(* JSON values as json.loads returns them: int, str, None, list of str.    *)
(* Every value carries all four fields so that any two can be compared.    *)
(***************************************************************************)
JInt(n) == [t |-> "int", n |-> n, s |-> EmptyStr, l |-> << >>]

JStr(s) == [t |-> "str", n |-> 0, s |-> s, l |-> << >>]

JNull == [t |-> "null", n |-> 0, s |-> EmptyStr, l |-> << >>]

JList(l) == [t |-> "list", n |-> 0, s |-> EmptyStr, l |-> l]

\* str(v) of a value that is not a list
PyStr(v) ==
    CASE v.t = "str" -> v.s
      [] v.t = "int" -> IntToStr(v.n)
      [] v.t = "null" -> <<"None">>

\* a Python dict with string keys: a function from its key set
EmptyDict == [k \in {} |-> JNull]

DictSet(d, key, v) == [k \in (DOMAIN d) \cup {key} |-> IF k = key THEN v ELSE d[k]]

\* Optional[...] values
None == [some |-> FALSE, val |-> EmptyDict]

Some(d) == [some |-> TRUE, val |-> d]

NoneStr == [some |-> FALSE, val |-> EmptyStr]

SomeStr(s) == [some |-> TRUE, val |-> s]

(***************************************************************************)
(* The text a model returns.  It is a sequence of tokens: "space" is       *)
(* whitespace, "text" is prose without braces that is not JSON, "lbrace"   *)
(* and "rbrace" are a stray '{' and '}', "obj" is a complete JSON object   *)
(* (it starts with '{' and ends with '}') and "val" is a complete JSON     *)
(* value written without braces (number, null, string, list).  No          *)
(* concatenation of several tokens is valid JSON.                          *)
(***************************************************************************)
TSpace == [k |-> "space", d |-> EmptyDict, v |-> JNull]

TText == [k |-> "text", d |-> EmptyDict, v |-> JNull]

TLBrace == [k |-> "lbrace", d |-> EmptyDict, v |-> JNull]

TRBrace == [k |-> "rbrace", d |-> EmptyDict, v |-> JNull]

TObj(d) == [k |-> "obj", d |-> d, v |-> JNull]

TVal(v) == [k |-> "val", d |-> EmptyDict, v |-> v]

RECURSIVE LStripTokens(_)
LStripTokens(r) == IF Len(r) > 0 /\ Head(r).k = "space" THEN LStripTokens(Tail(r)) ELSE r

RECURSIVE RStripTokens(_)
RStripTokens(r) ==
    IF Len(r) > 0 /\ r[Len(r)].k = "space" THEN RStripTokens(SubSeq(r, 1, Len(r) - 1)) ELSE r

\* str.strip() of a response
StripTokens(r) == RStripTokens(LStripTokens(r))

\* response_content.find('{'): first position holding a '{', 0 when there is none
FindLBrace(r) ==
    LET P == {i \in 1..Len(r) : r[i].k \in {"lbrace", "obj"}}
    IN  IF P = {} THEN 0 ELSE CHOOSE i \in P : \A j \in P : i <= j

\* response_content.rfind('}') + 1: end of the last '}', 0 when there is none
RFindRBraceEnd(r) ==
    LET P == {i \in 1..Len(r) : r[i].k \in {"rbrace", "obj"}}
    IN  IF P = {} THEN 0 ELSE CHOOSE i \in P : \A j \in P : i >= j

\* json.loads: whitespace around one complete JSON value is accepted,
\* everything else is a JSONDecodeError (ok = FALSE)
json_loads(r) ==
    LET t == StripTokens(r)
    IN  IF Len(t) = 1 /\ t[1].k = "obj"
            THEN [ok |-> TRUE, isdict |-> TRUE, d |-> t[1].d, v |-> JNull]
        ELSE IF Len(t) = 1 /\ t[1].k = "val"
            THEN [ok |-> TRUE, isdict |-> FALSE, d |-> EmptyDict, v |-> t[1].v]
        ELSE [ok |-> FALSE, isdict |-> FALSE, d |-> EmptyDict, v |-> JNull]

\* "Try to extract JSON from the response (in case there's extra text)"
ExtractJson(response_content) ==
    LET start_idx == FindLBrace(response_content)
        end_idx == RFindRBraceEnd(response_content)
    IN  IF start_idx # 0 /\ end_idx # 0
            THEN json_loads(SubSeq(response_content, start_idx, end_idx))
            ELSE json_loads(response_content)

(***************************************************************************)
(* The environment of one call: the installed libraries, the configured    *)
(* tokens and what the two backends answer.                                *)
(*   hf_available  HF_AVAILABLE                                            *)
(*   env_token     os.getenv('HF_TOKEN'), empty when unset                 *)
(*   secrets       st.secrets.get('HF_TOKEN', None), or it raises          *)
(*   probe_ok      the gpt2 probe of get_hf_client succeeds                *)
(*   hf            client.text_generation of hf_chat_completion            *)
(*   ollama        ollama.chat                                             *)
(***************************************************************************)
StartsWithHf(token) == Len(token) > 0 /\ token[1] = "hf_"

\* what a get_hf_client call did: the client returned (some, val), whether
\* an exception left the try block (exc), whether InferenceClient was
\* constructed (created) and whether the probe request was sent (probed)
HfOutcome(exc, client, created, probed) ==
    [exc |-> exc, some |-> client.some, val |-> client.val, created |-> created,
     probed |-> probed]

\* a try block that accepts a token of any format
HfClientBodyAnyFormat(api_token, be) ==
    IF ~Truthy(api_token) /\ ~Truthy(be.env_token) /\ be.secrets.raises
    THEN HfOutcome(TRUE, NoneStr, FALSE, FALSE)
    ELSE LET token == IF Truthy(api_token) THEN api_token
                      ELSE IF Truthy(be.env_token) THEN be.env_token
                      ELSE be.secrets.token
         IN  IF ~Truthy(token) THEN HfOutcome(FALSE, NoneStr, FALSE, FALSE)
             ELSE IF ~be.probe_ok THEN HfOutcome(FALSE, NoneStr, TRUE, TRUE)
             ELSE HfOutcome(FALSE, SomeStr(token), TRUE, TRUE)

\* the try block of get_hf_client: st.secrets is read only when neither the
\* argument nor the environment gives a token, and reading it can raise
HfClientBody(api_token, be) ==
    IF ~Truthy(api_token) /\ ~Truthy(be.env_token) /\ be.secrets.raises
    THEN HfOutcome(TRUE, NoneStr, FALSE, FALSE)
    ELSE LET token == IF Truthy(api_token) THEN api_token
                      ELSE IF Truthy(be.env_token) THEN be.env_token
                      ELSE be.secrets.token
         IN  IF ~Truthy(token) THEN HfOutcome(FALSE, NoneStr, FALSE, FALSE)
             ELSE IF ~StartsWithHf(token) THEN HfOutcome(FALSE, NoneStr, FALSE, FALSE)
             ELSE IF ~be.probe_ok THEN HfOutcome(FALSE, NoneStr, TRUE, TRUE)
             ELSE HfOutcome(FALSE, SomeStr(token), TRUE, TRUE)

get_hf_client(api_token, be) ==
    IF ~be.hf_available THEN HfOutcome(FALSE, NoneStr, FALSE, FALSE)
    ELSE LET body == HfClientBody(api_token, be)
         IN  IF body.exc THEN HfOutcome(FALSE, NoneStr, FALSE, FALSE) ELSE body

GetHfClient ==
    /\ inp.kind = "hf_client"
    /\ out' = [kind |-> "hf_client", client |-> get_hf_client(inp.api_token, inp.be)]
    /\ UNCHANGED <<sessionVars, ats_call, ats_mark, inp, eng_out>>

hf_chat_completion(client, be) ==
    IF ~client.some THEN [some |-> FALSE, val |-> << >>]
    ELSE IF be.hf.raises THEN [some |-> FALSE, val |-> << >>]
    ELSE [some |-> TRUE, val |-> StripTokens(be.hf.text)]

MsgNoClient == <<"Hugging Face client not available. Please check your API token.">>

MsgNoResponse == <<"Failed to get response from Hugging Face API">>

MsgKeyError == <<"'message'">>

MsgTypeError == <<"TypeError">>

Raise(msg) == [exc |-> TRUE, msg |-> msg, text |-> << >>]

\* "Choose API based on use_hf parameter": the response text, or the
\* exception the block raises
ChooseApi(use_hf, hf_token, be) ==
    IF use_hf /\ be.hf_available
    THEN LET hf_client == get_hf_client(hf_token, be)
         IN  IF ~hf_client.some THEN Raise(MsgNoClient)
             ELSE LET response_content == hf_chat_completion(hf_client, be)
                  IN  IF ~response_content.some \/ Len(response_content.val) = 0
                          THEN Raise(MsgNoResponse)
                          ELSE [exc |-> FALSE, msg |-> EmptyStr, text |-> response_content.val]
    ELSE IF be.ollama.raises THEN Raise(be.ollama.msg)
         ELSE IF ~be.ollama.has_content THEN Raise(MsgKeyError)
         ELSE [exc |-> FALSE, msg |-> EmptyStr, text |-> StripTokens(be.ollama.text)]

(***************************************************************************)
(* analyze_ats_score (utils.py).                                           *)
(***************************************************************************)
ats_numeric_keys == {"ats_score", "keyword_match_score", "formatting_score", "content_score"}

ats_list_keys ==
    {"missing_keywords", "formatting_issues", "content_issues", "ats_optimization_tips",
     "keyword_suggestions", "structure_recommendations"}

ats_required_keys == ats_numeric_keys \cup ats_list_keys \cup {"summary"}

MsgReviewAi == <<"Review the AI response manually for detailed feedback.">>

\* the value the key loop stores for a required key the object lacks
AtsDefault(key) ==
    CASE key = "ats_score" -> JInt(75)
      [] key = "keyword_match_score" -> JInt(70)
      [] key = "formatting_score" -> JInt(80)
      [] key = "content_score" -> JInt(75)
      [] key = "missing_keywords" -> JList(<<<<"keyword1">>, <<"keyword2">>, <<"keyword3">>>>)
      [] key = "formatting_issues" -> JList(<<<<"Review formatting manually">>>>)
      [] key = "content_issues" -> JList(<<<<"Review content manually">>>>)
      [] key = "ats_optimization_tips" -> JList(<<MsgReviewAi>>)
      [] key = "keyword_suggestions" -> JList(<<<<"keyword1">>, <<"keyword2">>, <<"keyword3">>>>)
      [] key = "structure_recommendations" -> JList(<<<<"Review structure manually">>>>)
      [] key = "summary" -> JStr(<<"Analysis completed but some details were not provided.">>)

\* the report built when the response cannot be parsed as JSON
AtsUnparsed ==
    [k \in ats_required_keys |->
        CASE k = "missing_keywords" ->
                JList(<<<<"keyword1">>, <<"keyword2">>, <<"keyword3">>, <<"keyword4">>,
                        <<"keyword5">>>>)
          [] k = "summary" ->
                JStr(<<"Analysis completed but response format was unexpected. ">>
                     \o <<"Please review the AI response manually for detailed feedback.">>)
          [] OTHER -> AtsDefault(k)]

MsgCheckOllama == <<"Please check that Ollama is running and the model is installed.">>

\* an except branch that returns the placeholder scores of the parse fallback
AtsFailedPlaceholder(msg) ==
    [k \in ats_required_keys |->
        CASE k \in ats_numeric_keys -> JInt(75)
          [] k = "summary" -> JStr(<<"ATS analysis failed">>)
          [] OTHER -> JList(<<<<"analysis_failed">>>>)]

\* the report of the except branch; msg is str(e)
AtsFailed(msg) ==
    [k \in ats_required_keys |->
        CASE k \in ats_numeric_keys -> JInt(0)
          [] k = "ats_optimization_tips" -> JList(<<MsgCheckOllama>>)
          [] k = "summary" ->
                JStr(<<"ATS analysis failed: ">> \o msg \o <<". ">> \o MsgCheckOllama)
          [] OTHER -> JList(<<<<"analysis_failed">>>>)]

\* a parse step without the JSONDecodeError handler: the error reaches the
\* outer except branch
AtsParseStrict(response_content) == ExtractJson(response_content)

\* "Parse JSON response": the parsed value, the unparsed-response report on
\* a JSONDecodeError
AtsParse(response_content) ==
    LET parsed == ExtractJson(response_content)
    IN  IF parsed.ok THEN parsed
        ELSE [ok |-> TRUE, isdict |-> TRUE, d |-> AtsUnparsed, v |-> JNull]

\* a key loop that adds nothing
AtsKeepKeys(d) == d

\* "Validate and ensure all required keys exist"
AtsEnsureKeys(d) ==
    [k \in (DOMAIN d) \cup ats_required_keys |-> IF k \in DOMAIN d THEN d[k] ELSE AtsDefault(k)]

\* a numeric step that also recomputes the overall score from the three
\* sub-scores
AtsWeightedScore(d) ==
    LET e == [k \in DOMAIN d |->
                IF k \in ats_numeric_keys /\ d[k].t = "str"
                THEN IF PyInt(d[k].s).ok THEN JInt(PyInt(d[k].s).n) ELSE JInt(75)
                ELSE d[k]]
    IN  IF \A k \in ats_numeric_keys : e[k].t = "int"
        THEN [e EXCEPT !["ats_score"] =
                JInt((3 * e["keyword_match_score"].n + 2 * e["formatting_score"].n
                      + 2 * e["content_score"].n) \div 7)]
        ELSE e

\* "Ensure numeric values are properly formatted"
AtsEnsureNumeric(d) ==
    [k \in DOMAIN d |->
        IF k \in ats_numeric_keys /\ d[k].t = "str"
        THEN IF PyInt(d[k].s).ok THEN JInt(PyInt(d[k].s).n) ELSE JInt(75)
        ELSE d[k]]

\* "Ensure lists are properly formatted"
AtsEnsureLists(d) ==
    [k \in DOMAIN d |->
        IF k \in ats_list_keys /\ d[k].t # "list" THEN JList(<<PyStr(d[k])>>) ELSE d[k]]

Returned(d) == [exc |-> FALSE, msg |-> EmptyStr, val |-> d]

Raised(msg) == [exc |-> TRUE, msg |-> msg, val |-> EmptyDict]

\* the body of the try block: the report it returns or the exception that
\* leaves it.  A parsed value that is not a dict makes the key loop raise a
\* TypeError.
AtsTryBody(use_hf, hf_token, be) ==
    LET api == ChooseApi(use_hf, hf_token, be)
    IN  IF api.exc THEN Raised(api.msg)
        ELSE LET ats_result == AtsParse(api.text)
             IN  IF ~ats_result.isdict THEN Raised(MsgTypeError)
                 ELSE Returned(AtsEnsureLists(AtsEnsureNumeric(AtsEnsureKeys(ats_result.d))))

\* an except branch that shows the previous report again when there is one
AtsExceptCached(body) ==
    IF body.exc
    THEN IF ats_results.some THEN Returned(ats_results.val) ELSE Returned(AtsFailed(body.msg))
    ELSE body

AtsExcept(body) == IF body.exc THEN Returned(AtsFailed(body.msg)) ELSE body

analyze_ats_score(use_hf, hf_token, be) == AtsExcept(AtsTryBody(use_hf, hf_token, be))

(***************************************************************************)
(* analyze_resume_vs_jd (utils.py).                                        *)
(***************************************************************************)
arv_list_keys ==
    {"missing_keywords", "found_skills", "additional_skills", "formatting_issues",
     "improvements"}

arv_required_keys ==
    {"score", "skills_match", "required_skills_count", "found_skills_count",
     "missing_skills_count", "tone_grammar", "summary"} \cup arv_list_keys

MsgUnexpected == <<"Analysis completed but response format was unexpected.">>

ArvDefault(key) ==
    CASE key = "score" -> JInt(75)
      [] key = "skills_match" -> JInt(70)
      [] key = "missing_keywords" -> JList(<<<<"keyword1">>, <<"keyword2">>, <<"keyword3">>>>)
      [] key = "found_skills" -> JList(<<<<"skill1">>, <<"skill2">>, <<"skill3">>>>)
      [] key = "required_skills_count" -> JInt(8)
      [] key = "found_skills_count" -> JInt(5)
      [] key = "missing_skills_count" -> JInt(3)
      [] key = "additional_skills" -> JList(<<<<"bonus1">>, <<"bonus2">>, <<"bonus3">>>>)
      [] key = "formatting_issues" -> JList(<<<<"Review formatting manually">>>>)
      [] key = "tone_grammar" -> JStr(<<"Not provided">>)
      [] key = "summary" -> JStr(<<"Analysis completed but some details were not provided.">>)
      [] key = "improvements" -> JList(<<MsgReviewAi>>)

\* the dict built when the response cannot be parsed as JSON (seven keys)
ArvUnparsed ==
    [k \in {"score", "skills_match", "missing_keywords", "formatting_issues", "tone_grammar",
            "summary", "improvements"} |->
        CASE k = "missing_keywords" ->
                JList(<<<<"keyword1">>, <<"keyword2">>, <<"keyword3">>, <<"keyword4">>,
                        <<"keyword5">>>>)
          [] k = "tone_grammar" -> JStr(MsgUnexpected)
          [] k = "summary" ->
                JStr(MsgUnexpected
                     \o <<" Please review the AI response manually for detailed feedback.">>)
          [] OTHER -> ArvDefault(k)]

\* the dict of the except branch; msg is str(e)
ArvFailed(msg) ==
    [k \in arv_required_keys |->
        CASE k \in {"score", "skills_match", "required_skills_count", "found_skills_count",
                    "missing_skills_count"} -> JInt(0)
          [] k = "tone_grammar" -> JStr(<<"Analysis failed: ">> \o msg)
          [] k = "summary" -> JStr(<<"Analysis failed: ">> \o msg \o <<". ">> \o MsgCheckOllama)
          [] k = "improvements" ->
                JList(<<MsgCheckOllama
                        \o <<" Try running 'ollama list' to see available models.">>>>)
          [] OTHER -> JList(<<<<"analysis_failed">>>>)]

ArvParse(response_content) ==
    LET parsed == ExtractJson(response_content)
    IN  IF parsed.ok THEN parsed
        ELSE [ok |-> TRUE, isdict |-> TRUE, d |-> ArvUnparsed, v |-> JNull]

\* a key loop that adds nothing
ArvKeepKeys(d) == d

\* "Validate and ensure all required keys exist"
ArvEnsureKeys(d) ==
    [k \in (DOMAIN d) \cup arv_required_keys |-> IF k \in DOMAIN d THEN d[k] ELSE ArvDefault(k)]

ArvEnsureNumeric(d) ==
    [k \in DOMAIN d |->
        IF k \in {"score", "skills_match"} /\ d[k].t = "str"
        THEN IF PyInt(d[k].s).ok THEN JInt(PyInt(d[k].s).n)
             ELSE IF k = "score" THEN JInt(75) ELSE JInt(70)
        ELSE d[k]]

ArvEnsureLists(d) ==
    [k \in DOMAIN d |->
        IF k \in arv_list_keys /\ d[k].t # "list" THEN JList(<<PyStr(d[k])>>) ELSE d[k]]

MsgUnbound == <<"cannot access local variable 'response' where it is not associated with a value">>

\* "Extract the response content": response is bound by the Ollama branch
\* only, so after the Hugging Face branch the statement raises
\* UnboundLocalError
ArvExtractResponse(use_hf, be, api) ==
    IF use_hf /\ be.hf_available THEN Raise(MsgUnbound) ELSE api

ArvTryBody(use_hf, hf_token, be) ==
    LET api == ChooseApi(use_hf, hf_token, be)
    IN  IF api.exc THEN Raised(api.msg)
        ELSE LET again == ArvExtractResponse(use_hf, be, api)
             IN  IF again.exc THEN Raised(again.msg)
                 ELSE LET analysis_result == ArvParse(again.text)
                      IN  IF ~analysis_result.isdict THEN Raised(MsgTypeError)
                          ELSE Returned(ArvEnsureLists(ArvEnsureNumeric(
                                            ArvEnsureKeys(analysis_result.d))))

ArvExcept(body) == IF body.exc THEN Returned(ArvFailed(body.msg)) ELSE body

analyze_resume_vs_jd(use_hf, hf_token, be) == ArvExcept(ArvTryBody(use_hf, hf_token, be))

\* one call analyze_resume_vs_jd(resume_text, job_text, model_name, use_hf,
\* hf_token); ollama_called tells whether the branch of ollama.chat ran
AnalyzeResumeVsJd ==
    /\ inp.kind = "arv"
    /\ out' = [kind |-> "arv",
               result |-> analyze_resume_vs_jd(inp.use_hf, inp.hf_token, inp.be),
               ollama_called |-> ~(inp.use_hf /\ inp.be.hf_available)]
    /\ UNCHANGED <<sessionVars, ats_call, ats_mark, inp, eng_out>>

(***************************************************************************)
(* extract_text_from_file (utils.py).  A file is None or an uploaded file  *)
(* with a name, a content and a reader that succeeds or fails on it.  A    *)
(* name is a sequence of chunks: "." and the pieces between the dots.      *)
(***************************************************************************)
MaxNameLen == 3

NoFile == [present |-> FALSE, name |-> EmptyStr, reader_ok |-> FALSE, content |-> EmptyStr]

UploadedFile(name, reader_ok, content) ==
    [present |-> TRUE, name |-> name, reader_ok |-> reader_ok, content |-> content]

\* str.lower() on one piece of a file name
LowerPiece(c) ==
    CASE c = "PDF" -> "pdf"
      [] c = "Docx" -> "docx"
      [] OTHER -> c

\* file.name.lower().split('.')[-1]: what follows the last ".", the whole
\* name when it has none
FileExtension(name) ==
    IF Len(name) = 0 \/ name[Len(name)] = "." THEN "" ELSE LowerPiece(name[Len(name)])

\* _extract_text_from_pdf, _extract_text_from_docx, _extract_text_from_txt:
\* the stripped text, or the exception that wraps the reader's failure
ExtractWith(kind, file) ==
    IF file.reader_ok
    THEN [exc |-> FALSE, msg |-> EmptyStr, text |-> Strip(file.content)]
    ELSE Raise(<<kind, " extraction failed">>)

\* the try block of extract_text_from_file
ExtractBody(file) ==
    IF ~file.present THEN [exc |-> FALSE, result |-> NoneStr, extractor |-> "none"]
    ELSE LET file_extension == FileExtension(file.name)
         IN  IF file_extension \in {"pdf", "docx", "txt"}
             THEN LET r == ExtractWith(file_extension, file)
                  IN  [exc |-> r.exc,
                       result |-> IF r.exc THEN NoneStr ELSE SomeStr(r.text),
                       extractor |-> file_extension]
             ELSE [exc |-> FALSE, result |-> NoneStr, extractor |-> "none"]

extract_text_from_file(file) ==
    LET body == ExtractBody(file)
    IN  IF body.exc
        THEN [exc |-> FALSE, result |-> NoneStr, extractor |-> body.extractor]
        ELSE body

ExtractTextFromFile ==
    /\ inp.kind = "file"
    /\ out' = [kind |-> "extract", call |-> extract_text_from_file(inp.file)]
    /\ UNCHANGED <<sessionVars, ats_call, ats_mark, inp, eng_out>>

(***************************************************************************)
(* generate_cover_letter (utils.py).  The backends answer with text: a     *)
(* sequence of chunks in which "<fence>" is a code fence (three            *)
(* backquotes).                                                            *)
(***************************************************************************)
MaxLetterWords == 300

TruncatedWords == 250

Fence == "<fence>"

\* text.split(): the maximal whitespace-free runs, in order.  The text is
\* divided at a whitespace near its middle, which keeps the evaluation
\* shallow for long letters.
RECURSIVE Split(_)
Split(text) ==
    LET n == Len(text)
        mid == (n + 1) \div 2
    IN  IF \A i \in 1..n : text[i] # " " THEN IF n = 0 THEN << >> ELSE <<text>>
        ELSE LET m == IF \E i \in mid..n : text[i] = " "
                      THEN CHOOSE i \in mid..n :
                                text[i] = " " /\ \A j \in mid..(i - 1) : text[j] # " "
                      ELSE CHOOSE i \in 1..(mid - 1) :
                                text[i] = " " /\ \A j \in (i + 1)..(mid - 1) : text[j] # " "
             IN  Split(SubSeq(text, 1, m - 1)) \o Split(SubSeq(text, m + 1, n))

\* ' '.join(words)
RECURSIVE Join(_)
Join(words) ==
    IF Len(words) = 0 THEN EmptyStr
    ELSE IF Len(words) = 1 THEN words[1]
    ELSE LET h == Len(words) \div 2
         IN  Join(SubSeq(words, 1, h)) \o <<" ">> \o Join(SubSeq(words, h + 1, Len(words)))

\* hf_chat_completion on a text answer
ClHfCompletion(client, be) ==
    IF ~client.some THEN [some |-> FALSE, val |-> << >>]
    ELSE IF be.hf.raises THEN [some |-> FALSE, val |-> << >>]
    ELSE [some |-> TRUE, val |-> Strip(be.hf.text)]

\* "Choose API based on use_hf parameter" of generate_cover_letter
ClChooseApi(use_hf, hf_token, be) ==
    IF use_hf /\ be.hf_available
    THEN LET hf_client == get_hf_client(hf_token, be)
         IN  IF ~hf_client.some THEN Raise(MsgNoClient)
             ELSE LET cover == ClHfCompletion(hf_client, be)
                  IN  IF ~cover.some \/ Len(cover.val) = 0 THEN Raise(MsgNoResponse)
                      ELSE [exc |-> FALSE, msg |-> EmptyStr, text |-> cover.val]
    ELSE IF be.ollama.raises THEN Raise(be.ollama.msg)
         ELSE IF ~be.ollama.has_content THEN Raise(MsgKeyError)
         ELSE [exc |-> FALSE, msg |-> EmptyStr, text |-> Strip(be.ollama.text)]

\* "Clean up the response if needed"
ClCleanFence(text) ==
    IF Len(text) > 0 /\ text[1] = Fence /\ text[Len(text)] = Fence
    THEN Strip(SubSeq(text, 2, Len(text) - 1))
    ELSE text

\* a truncation that keeps as many words as the limit allows
ClTruncateAtLimit(text) ==
    IF WordCount(text) > MaxLetterWords
    THEN Join(SubSeq(Split(text), 1, MaxLetterWords)) \o <<"...">>
    ELSE text

\* "Ensure the cover letter is not too long"
ClTruncate(text) ==
    IF WordCount(text) > MaxLetterWords
    THEN Join(SubSeq(Split(text), 1, TruncatedWords)) \o <<"...">>
    ELSE text

\* the fallback cover letter of the except branch
FallbackLetter ==
    <<"Dear", " ", "Hiring", " ", "Manager,", " ", "I", " ", "am", " ", "writing", " ", "to",
      " ", "express", " ", "my", " ", "interest", " ", "in", " ", "the", " ", "position", " ",
      "at", " ", "your", " ", "company.", " ", "Based", " ", "on", " ", "my", " ", "review",
      " ", "of", " ", "the", " ", "job", " ", "description", " ", "and", " ", "my", " ",
      "professional", " ", "background,", " ", "I", " ", "believe", " ", "I", " ", "would",
      " ", "be", " ", "a", " ", "valuable", " ", "addition", " ", "to", " ", "your", " ",
      "team.", " ", "Unfortunately,", " ", "there", " ", "was", " ", "an", " ", "error", " ",
      "generating", " ", "a", " ", "personalized", " ", "cover", " ", "letter.", " ",
      "Please", " ", "ensure", " ", "that:", " ", "1.", " ", "Ollama", " ", "is", " ",
      "running", " ", "properly", " ", "2.", " ", "The", " ", "selected", " ", "model", " ",
      "is", " ", "available", " ", "3.", " ", "Both", " ", "resume", " ", "and", " ", "job",
      " ", "description", " ", "texts", " ", "are", " ", "provided", " ", "I", " ",
      "apologize", " ", "for", " ", "this", " ", "inconvenience", " ", "and", " ", "would",
      " ", "be", " ", "happy", " ", "to", " ", "provide", " ", "additional", " ",
      "information", " ", "about", " ", "my", " ", "qualifications.", " ", "Best", " ",
      "regards,", " ", "[Your", " ", "Name]">>

generate_cover_letter(use_hf, hf_token, be) ==
    LET api == ClChooseApi(use_hf, hf_token, be)
    IN  IF api.exc THEN FallbackLetter
        ELSE ClTruncate(ClCleanFence(api.text))

GenerateCoverLetter ==
    /\ inp.kind = "cover"
    /\ out' = [kind |-> "cover_letter",
               text |-> generate_cover_letter(inp.use_hf, inp.hf_token, inp.be)]
    /\ UNCHANGED <<sessionVars, ats_call, ats_mark, inp, eng_out>>

(***************************************************************************)
(* preprocess_text_for_visualization (utils.py).  Its texts are sequences  *)
(* of single characters; "<E-acute>" stands for an upper-case letter       *)
(* outside ASCII and "<e-acute>" for its lower case.                       *)
(***************************************************************************)
MaxTextLen == 4

\* the characters \s matches
IsWhitespace(c) == c \in {" ", "\n"}

LowerCase ==
    <<"a", "b", "c", "d", "e", "f", "g", "h", "i", "j", "k", "l", "m", "n", "o", "p",
      "q", "r", "s", "t", "u", "v", "w", "x", "y", "z">>

UpperCase ==
    <<"A", "B", "C", "D", "E", "F", "G", "H", "I", "J", "K", "L", "M", "N", "O", "P",
      "Q", "R", "S", "T", "U", "V", "W", "X", "Y", "Z">>

\* the characters [a-zA-Z] matches
IsAsciiLetter(c) == \E i \in DOMAIN LowerCase : c = LowerCase[i] \/ c = UpperCase[i]

\* str.lower() on one character
LowerChar(c) ==
    IF \E i \in DOMAIN UpperCase : c = UpperCase[i]
    THEN LowerCase[CHOOSE i \in DOMAIN UpperCase : c = UpperCase[i]]
    ELSE IF c = "<E-acute>" THEN "<e-acute>"
    ELSE c

\* text.lower()
LowerText(text) == [i \in 1..Len(text) |-> LowerChar(text[i])]

\* re.sub(r'[^a-zA-Z\s]', ' ', text)
SubNonLetters(text) ==
    [i \in 1..Len(text) |->
        IF IsAsciiLetter(text[i]) \/ IsWhitespace(text[i]) THEN text[i] ELSE " "]

\* re.sub(r'\s+', ' ', text): every maximal run of whitespace becomes one
\* space
RECURSIVE CollapseWhitespace(_)
CollapseWhitespace(text) ==
    IF Len(text) = 0 THEN << >>
    ELSE IF IsWhitespace(text[1])
        THEN IF Len(text) > 1 /\ IsWhitespace(text[2])
             THEN CollapseWhitespace(Tail(text))
             ELSE <<" ">> \o CollapseWhitespace(Tail(text))
        ELSE <<text[1]>> \o CollapseWhitespace(Tail(text))

\* a preprocessing that leaves out the final strip()
preprocess_text_unstripped(text) ==
    IF ~Truthy(text) THEN EmptyStr
    ELSE CollapseWhitespace(SubNonLetters(LowerText(text)))

preprocess_text_for_visualization(text) ==
    IF ~Truthy(text) THEN EmptyStr
    ELSE Strip(CollapseWhitespace(SubNonLetters(LowerText(text))))

Preprocess ==
    /\ inp.kind = "text"
    /\ out' = [kind |-> "normalized", text |-> preprocess_text_for_visualization(inp.text)]
    /\ UNCHANGED <<sessionVars, ats_call, ats_mark, inp, eng_out>>

(***************************************************************************)
(* create_skills_bar_chart (utils.py): the counting of the skill           *)
(* vocabulary in the two preprocessed texts.  Texts and skills are         *)
(* sequences of single characters.                                         *)
(***************************************************************************)
\* common_skills, every entry character by character
CommonSkills ==
    <<<<"p", "y", "t", "h", "o", "n">>, <<"j", "a", "v", "a">>,
      <<"j", "a", "v", "a", "s", "c", "r", "i", "p", "t">>, <<"s", "q", "l">>,
      <<"h", "t", "m", "l">>, <<"c", "s", "s">>, <<"r", "e", "a", "c", "t">>,
      <<"a", "n", "g", "u", "l", "a", "r">>, <<"v", "u", "e">>,
      <<"n", "o", "d", "e", ".", "j", "s">>, <<"d", "o", "c", "k", "e", "r">>,
      <<"k", "u", "b", "e", "r", "n", "e", "t", "e", "s">>, <<"a", "w", "s">>,
      <<"a", "z", "u", "r", "e">>, <<"g", "c", "p">>,
      <<"m", "a", "c", "h", "i", "n", "e", " ", "l", "e", "a", "r", "n", "i", "n", "g">>,
      <<"a", "i">>,
      <<"d", "a", "t", "a", " ", "a", "n", "a", "l", "y", "s", "i", "s">>,
      <<"e", "x", "c", "e", "l">>,
      <<"p", "o", "w", "e", "r", "p", "o", "i", "n", "t">>, <<"w", "o", "r", "d">>,
      <<"p", "r", "o", "j", "e", "c", "t", " ", "m", "a", "n", "a", "g", "e", "m", "e", "n", "t">>,
      <<"a", "g", "i", "l", "e">>, <<"s", "c", "r", "u", "m">>,
      <<"l", "e", "a", "d", "e", "r", "s", "h", "i", "p">>,
      <<"c", "o", "m", "m", "u", "n", "i", "c", "a", "t", "i", "o", "n">>,
      <<"t", "e", "a", "m", "w", "o", "r", "k">>,
      <<"p", "r", "o", "b", "l", "e", "m", " ", "s", "o", "l", "v", "i", "n", "g">>,
      <<"a", "n", "a", "l", "y", "t", "i", "c", "a", "l">>,
      <<"r", "e", "s", "e", "a", "r", "c", "h">>,
      <<"w", "r", "i", "t", "i", "n", "g">>,
      <<"m", "a", "r", "k", "e", "t", "i", "n", "g">>, <<"s", "a", "l", "e", "s">>,
      <<"c", "u", "s", "t", "o", "m", "e", "r", " ", "s", "e", "r", "v", "i", "c", "e">>,
      <<"f", "i", "n", "a", "n", "c", "e">>,
      <<"a", "c", "c", "o", "u", "n", "t", "i", "n", "g">>,
      <<"d", "e", "s", "i", "g", "n">>, <<"c", "r", "e", "a", "t", "i", "v", "e">>,
      <<"m", "a", "n", "a", "g", "e", "m", "e", "n", "t">>,
      <<"s", "u", "p", "e", "r", "v", "i", "s", "i", "o", "n">>,
      <<"t", "r", "a", "i", "n", "i", "n", "g">>,
      <<"m", "e", "n", "t", "o", "r", "i", "n", "g">>,
      <<"s", "t", "r", "a", "t", "e", "g", "y">>,
      <<"p", "l", "a", "n", "n", "i", "n", "g">>,
      <<"o", "r", "g", "a", "n", "i", "z", "a", "t", "i", "o", "n">>>>

TopSkills == 10

\* sub occurs in text at position i
StartsAt(text, sub, i) ==
    /\ i >= 1
    /\ i + Len(sub) - 1 <= Len(text)
    /\ SubSeq(text, i, i + Len(sub) - 1) = sub

\* str.count(sub) from position i on: occurrences that do not overlap,
\* taken from left to right
RECURSIVE CountFrom(_, _, _)
CountFrom(text, sub, i) ==
    IF i + Len(sub) - 1 > Len(text) THEN 0
    ELSE IF StartsAt(text, sub, i) THEN 1 + CountFrom(text, sub, i + Len(sub))
    ELSE CountFrom(text, sub, i + 1)

\* text.count(sub)
Count(text, sub) == CountFrom(text, sub, 1)

\* str.upper() on one character
UpperChar(c) ==
    IF \E i \in DOMAIN LowerCase : c = LowerCase[i]
    THEN UpperCase[CHOOSE i \in DOMAIN LowerCase : c = LowerCase[i]]
    ELSE c

\* str.title(): a letter that does not follow a letter is upper-cased,
\* every other letter lower-cased
Title(text) ==
    [i \in 1..Len(text) |->
        IF i = 1 \/ ~IsAsciiLetter(text[i - 1]) THEN UpperChar(text[i]) ELSE LowerChar(text[i])]

\* "Count skill occurrences": the rows of skills_data, in vocabulary order
SkillsData(resume, jd) ==
    LET resume_clean == preprocess_text_for_visualization(resume)
        jd_clean == preprocess_text_for_visualization(jd)
        row(k) ==
            LET resume_count == Count(resume_clean, CommonSkills[k])
                jd_count == Count(jd_clean, CommonSkills[k])
            IN  [skill |-> Title(CommonSkills[k]), resume_count |-> resume_count,
                 jd_count |-> jd_count, total_count |-> resume_count + jd_count]
    IN  SelectSeq([k \in DOMAIN CommonSkills |-> row(k)],
                  LAMBDA r : r.resume_count > 0 \/ r.jd_count > 0)

\* skills_data.sort(key=total_count, reverse=True): a stable sort, rows
\* with the same total keep their order
SortByTotal(data) ==
    LET before(i) ==
            Cardinality({j \in DOMAIN data :
                            \/ data[j].total_count > data[i].total_count
                            \/ data[j].total_count = data[i].total_count /\ j < i})
    IN  [p \in DOMAIN data |-> data[CHOOSE i \in DOMAIN data : before(i) = p - 1]]

\* skills_data[:10]
TopTen(data) == IF Len(data) > TopSkills THEN SubSeq(data, 1, TopSkills) ELSE data

\* create_skills_bar_chart: the rows counted and the rows the chart shows
\* (none: the empty figure "No skills found in the provided texts")
create_skills_bar_chart(resume, jd) ==
    LET skills_data == SkillsData(resume, jd)
    IN  [skills_data |-> skills_data, top_skills |-> TopTen(SortByTotal(skills_data))]

CreateSkillsBarChart ==
    /\ inp.kind = "skills"
    /\ out.kind = "none"
    /\ out' = [kind |-> "skills", chart |-> create_skills_bar_chart(inp.resume, inp.jd)]
    /\ UNCHANGED <<sessionVars, ats_call, ats_mark, inp, eng_out>>

(***************************************************************************)
(* The heuristic ATS engine of the specification (sections 4.3 and 4.4).   *)
(* Normalized texts are single-spaced, so they are given as word           *)
(* sequences joined by one space.                                          *)
(***************************************************************************)
RECURSIVE JoinWords(_)
JoinWords(ws) ==
    IF Len(ws) = 0 THEN EmptyStr
    ELSE IF Len(ws) = 1 THEN <<ws[1]>>
    ELSE <<ws[1], " ">> \o JoinWords(Tail(ws))

\* the positions <<i, j>> of the maximal whitespace-free runs of a text
WordRuns(text) ==
    {r \in (1..Len(text)) \X (1..Len(text)) :
        /\ r[1] <= r[2]
        /\ \A x \in r[1]..r[2] : text[x] # " "
        /\ (r[1] = 1 \/ text[r[1] - 1] = " ")
        /\ (r[2] = Len(text) \/ text[r[2] + 1] = " ")}

\* the whitespace-delimited word set of a text
WordSet(text) == {SubSeq(text, r[1], r[2]) : r \in WordRuns(text)}

\* an exact fraction num/den
Ratio(num, den) == [num |-> num, den |-> den]

\* a keyword analysis that looks the resume words up in the whole vocabulary
analyzeKeywordsLoose(resumeNormalized, jdNormalized, vocabulary) ==
    LET resumeWords == WordSet(resumeNormalized)
        jdWords == WordSet(jdNormalized)
        jdKeywords == jdWords \cap vocabulary
        found == resumeWords \cap vocabulary
        missing == jdKeywords \ found
    IN  [kind |-> "keywords", found |-> found, missing |-> missing,
         matchPercentage |->
            IF Cardinality(jdKeywords) > 0
            THEN Ratio(100 * Cardinality(found), Cardinality(jdKeywords)) ELSE Ratio(0, 1),
         densityPercentage |->
            IF WordCount(resumeNormalized) > 0
            THEN Ratio(100 * Cardinality(found), WordCount(resumeNormalized))
            ELSE Ratio(0, 1)]

\* a keyword analysis whose match percentage is taken over the vocabulary
analyzeKeywordsOverVocabulary(resumeNormalized, jdNormalized, vocabulary) ==
    LET resumeWords == WordSet(resumeNormalized)
        jdWords == WordSet(jdNormalized)
        jdKeywords == jdWords \cap vocabulary
        found == resumeWords \cap jdKeywords
        missing == jdKeywords \ found
    IN  [kind |-> "keywords", found |-> found, missing |-> missing,
         matchPercentage |-> Ratio(100 * Cardinality(found), Cardinality(vocabulary)),
         densityPercentage |->
            IF WordCount(resumeNormalized) > 0
            THEN Ratio(100 * Cardinality(found), WordCount(resumeNormalized))
            ELSE Ratio(0, 1)]

\* analyzeKeywords (section 4.3)
analyzeKeywords(resumeNormalized, jdNormalized, vocabulary) ==
    LET resumeWords == WordSet(resumeNormalized)
        jdWords == WordSet(jdNormalized)
        jdKeywords == jdWords \cap vocabulary
        found == resumeWords \cap jdKeywords
        missing == jdKeywords \ found
    IN  [kind |-> "keywords", found |-> found, missing |-> missing,
         matchPercentage |->
            IF Cardinality(jdKeywords) > 0
            THEN Ratio(100 * Cardinality(found), Cardinality(jdKeywords)) ELSE Ratio(0, 1),
         densityPercentage |->
            IF WordCount(resumeNormalized) > 0
            THEN Ratio(100 * Cardinality(found), WordCount(resumeNormalized))
            ELSE Ratio(0, 1)]

\* the texts of the formatting checks are raw: a chunk is a bullet marker,
\* a section header, an e-mail address, a phone number or a plain word
\* U+2022, hyphen, asterisk, U+2192 and U+25B6 (the non-ASCII ones by name)
BulletMarkers == {"<bullet>", "-", "*", "<arrow>", "<triangle>"}

SectionHeaders == {"experience", "education", "skills", "summary", "objective"}

\* str.lower() on the chunks the inputs use
Lower(c) ==
    CASE c = "Experience" -> "experience"
      [] c = "SKILLS" -> "skills"
      [] c = "Work" -> "work"
      [] c = "History" -> "history"
      [] c = "Developed" -> "developed"
      [] c = "Managed" -> "managed"
      [] c = "Python" -> "python"
      [] OTHER -> c

HasBullet(text) == \E i \in 1..Len(text) : text[i] \in BulletMarkers

\* case-insensitive match of a section header, "work history" included
HasHeader(text) ==
    \/ \E i \in 1..Len(text) : Lower(text[i]) \in SectionHeaders
    \/ \E i \in 1..(Len(text) - 2) :
            Lower(text[i]) = "work" /\ text[i + 1] = " " /\ Lower(text[i + 2]) = "history"

IsEmail(c) == c \in {"jane@mail.com"}

IsPhone(c) == c \in {"555.123.4567", "5551234567"}

HasContact(text) == \E i \in 1..Len(text) : IsEmail(text[i]) \/ IsPhone(text[i])

Max(a, b) == IF a >= b THEN a ELSE b

\* a formatting analysis that charges a long resume like a short one
analyzeFormattingFlatLength(rawResumeText) ==
    LET wc == WordCount(rawResumeText)
        bullet == IF HasBullet(rawResumeText) THEN 0 ELSE 15
        header == IF HasHeader(rawResumeText) THEN 0 ELSE 20
        length == IF wc < 100 THEN 10 ELSE IF wc > 800 THEN 10 ELSE 0
        contact == IF HasContact(rawResumeText) THEN 0 ELSE 10
    IN  [kind |-> "formatting",
         score |-> Max(0, 100 - bullet - header - length - contact),
         issues |-> << >>]

\* analyzeFormatting (section 4.4): the score starts at 100 and each failed
\* check takes its penalty; issues lists the failed checks in order
analyzeFormatting(rawResumeText) ==
    LET wc == WordCount(rawResumeText)
        s0 == 100
        s1 == IF HasBullet(rawResumeText) THEN s0 ELSE s0 - 15
        s2 == IF HasHeader(rawResumeText) THEN s1 ELSE s1 - 20
        s3 == IF wc < 100 THEN s2 - 10 ELSE IF wc > 800 THEN s2 - 5 ELSE s2
        s4 == IF HasContact(rawResumeText) THEN s3 ELSE s3 - 10
    IN  [kind |-> "formatting",
         score |-> Max(0, s4),
         issues |->
            (IF HasBullet(rawResumeText) THEN << >> ELSE <<"no bullet points">>)
            \o (IF HasHeader(rawResumeText) THEN << >> ELSE <<"no section headers">>)
            \o (IF wc < 100 THEN <<"too short">> ELSE IF wc > 800 THEN <<"too long">> ELSE << >>)
            \o (IF HasContact(rawResumeText) THEN << >> ELSE <<"no contact information">>)]

\* the engine applied to the drawn input
AnalyzeKeywords ==
    /\ inp.kind = "keywords"
    /\ eng_out' = analyzeKeywords(inp.resume, inp.jd, inp.vocabulary)
    /\ UNCHANGED <<sessionVars, ats_call, ats_mark, inp, out>>

AnalyzeFormatting ==
    /\ inp.kind = "formatting"
    /\ eng_out' = analyzeFormatting(inp.text)
    /\ UNCHANGED <<sessionVars, ats_call, ats_mark, inp, out>>

(***************************************************************************)
(* The content quality analyzer of the specification (section 4.5).  Of    *)
(* the 18 action verbs the specification names the ones listed here.       *)
(***************************************************************************)
ActionVerbs == {"developed", "implemented", "managed", "led"}

UnitWords == {"percent", "dollars", "users", "customers", "projects", "years"}

\* the case-insensitive occurrences of action verbs in a text
ActionVerbMatches(text) ==
    Cardinality({i \in 1..Len(text) : Lower(text[i]) \in ActionVerbs})

IsPercentage(c) == c \in {"20%"}

IsCount(c) == c \in {"5"}

\* a percentage, or a count followed by a unit word
HasQuantified(text) ==
    \/ \E i \in 1..Len(text) : IsPercentage(text[i])
    \/ \E i \in 1..(Len(text) - 2) :
            IsCount(text[i]) /\ text[i + 1] = " " /\ Lower(text[i + 2]) \in UnitWords

\* the raw lowercase word set of a text
LowerWords(text) == {[i \in 1..Len(w) |-> Lower(w[i])] : w \in WordSet(text)}

\* a content analysis that compares the words without lowering them
analyzeContentCaseSensitive(rawResumeText, rawJdText) ==
    LET verbs == ActionVerbMatches(rawResumeText)
        overlap == WordSet(rawResumeText) \cap WordSet(rawJdText)
        s0 == 100
        s1 == IF verbs < 3 THEN s0 - 15 ELSE s0
        s2 == IF HasQuantified(rawResumeText) THEN s1 ELSE s1 - 20
        s3 == IF Cardinality(overlap) < 5 THEN s2 - 25 ELSE s2
    IN  [kind |-> "content",
         score |-> Max(0, s3),
         issues |->
            (IF verbs < 3 THEN <<"few action verbs">> ELSE << >>)
            \o (IF HasQuantified(rawResumeText) THEN << >> ELSE <<"no quantified achievements">>)
            \o (IF Cardinality(overlap) < 5 THEN <<"low keyword overlap">> ELSE << >>)]

\* analyzeContent (section 4.5): the score starts at 100 and each failed
\* check takes its penalty; issues lists the failed checks in order
analyzeContent(rawResumeText, rawJdText) ==
    LET verbs == ActionVerbMatches(rawResumeText)
        overlap == LowerWords(rawResumeText) \cap LowerWords(rawJdText)
        s0 == 100
        s1 == IF verbs < 3 THEN s0 - 15 ELSE s0
        s2 == IF HasQuantified(rawResumeText) THEN s1 ELSE s1 - 20
        s3 == IF Cardinality(overlap) < 5 THEN s2 - 25 ELSE s2
    IN  [kind |-> "content",
         score |-> Max(0, s3),
         issues |->
            (IF verbs < 3 THEN <<"few action verbs">> ELSE << >>)
            \o (IF HasQuantified(rawResumeText) THEN << >> ELSE <<"no quantified achievements">>)
            \o (IF Cardinality(overlap) < 5 THEN <<"low keyword overlap">> ELSE << >>)]

AnalyzeContent ==
    /\ inp.kind = "content"
    /\ eng_out' = analyzeContent(inp.resume, inp.jd)
    /\ UNCHANGED <<sessionVars, ats_call, ats_mark, inp, out>>

(***************************************************************************)
(* The score aggregator of the specification (section 4.6).  The overall   *)
(* score is kept as an exact fraction (the rounding to one decimal is not  *)
(* modelled); a tip is a string, and an issue or keyword is listed         *)
(* verbatim.                                                               *)
(***************************************************************************)
Min(a, b) == IF a <= b THEN a ELSE b

\* the first n elements of a sequence, all of them when it is shorter
Take(s, n) == SubSeq(s, 1, Min(n, Len(s)))

\* the keywords of the inputs in lexicographic order
KeywordOrder ==
    <<<<"agile">>, <<"aws">>, <<"docker">>, <<"java">>, <<"leadership">>, <<"python">>,
      <<"sql">>>>

\* a keyword set as the sequence sorted lexicographically
Sorted(S) == SelectSeq(KeywordOrder, LAMBDA w : w \in S)

LowMatchWarning == <<"Low keyword match: add more keywords from the job description">>

GenericTips ==
    <<<<"Use standard section headings">>, <<"Use a simple single-column layout">>,
      <<"Save the resume in a standard file format">>, <<"Avoid images and tables">>,
      <<"Tailor the resume to each job description">>>>

\* the issues of an analyzer as tips
AsTips(issues) == [i \in 1..Len(issues) |-> <<issues[i]>>]

\* 100*similarity*0.30 + matchPercentage*0.30 + formatting*0.20 + content*0.20
WeightedSum(similarity, matchPercentage, formattingScore, contentScore) ==
    Ratio(300 * similarity.num * matchPercentage.den
            + 3 * matchPercentage.num * similarity.den
            + 2 * (formattingScore + contentScore) * similarity.den * matchPercentage.den,
          10 * similarity.den * matchPercentage.den)

\* the summary tier of an overall score
SummaryTier(overall) ==
    IF overall.num >= 80 * overall.den THEN "excellent"
    ELSE IF overall.num >= 60 * overall.den THEN "good"
    ELSE IF overall.num >= 40 * overall.den THEN "fair"
    ELSE "poor"

\* an aggregator that pads with the generic tips before the content issues
aggregateGenericEarly(similarity, keywordResult, formattingResult, contentResult) ==
    LET mp == keywordResult.matchPercentage
        missing == Sorted(keywordResult.missing)
        warning == IF mp.num < 50 * mp.den THEN <<LowMatchWarning>> ELSE << >>
        tips == warning \o Take(missing, 5) \o Take(AsTips(formattingResult.issues), 3)
                    \o GenericTips \o Take(AsTips(contentResult.issues), 3)
        overall == WeightedSum(similarity, mp, formattingResult.score, contentResult.score)
    IN  [kind |-> "report",
         atsScore |-> overall,
         similarity |-> similarity,
         keywordMatchScore |-> mp,
         formattingScore |-> formattingResult.score,
         contentScore |-> contentResult.score,
         missingKeywords |-> missing,
         foundKeywords |-> Sorted(keywordResult.found),
         formattingIssues |-> formattingResult.issues,
         contentIssues |-> contentResult.issues,
         optimizationTips |-> Take(tips, 10),
         tier |-> SummaryTier(overall)]

\* aggregate (section 4.6)
aggregate(similarity, keywordResult, formattingResult, contentResult) ==
    LET mp == keywordResult.matchPercentage
        missing == Sorted(keywordResult.missing)
        warning == IF mp.num < 50 * mp.den THEN <<LowMatchWarning>> ELSE << >>
        tips == warning \o Take(missing, 5) \o Take(AsTips(formattingResult.issues), 3)
                    \o Take(AsTips(contentResult.issues), 3) \o GenericTips
        overall == WeightedSum(similarity, mp, formattingResult.score, contentResult.score)
    IN  [kind |-> "report",
         atsScore |-> overall,
         similarity |-> similarity,
         keywordMatchScore |-> mp,
         formattingScore |-> formattingResult.score,
         contentScore |-> contentResult.score,
         missingKeywords |-> missing,
         foundKeywords |-> Sorted(keywordResult.found),
         formattingIssues |-> formattingResult.issues,
         contentIssues |-> contentResult.issues,
         optimizationTips |-> Take(tips, 10),
         tier |-> SummaryTier(overall)]

(***************************************************************************)
(* The text normalizer and the similarity scorer of the specification      *)
(* (sections 4.1 and 4.2) and the pipeline of section 2.  The cosine of    *)
(* two documents that share some but not all terms is the value the        *)
(* vectorization backend computes; it comes with the input.                *)
(***************************************************************************)
\* one chunk of raw text, normalized: lowercase, and every character that
\* is not a letter, digit, whitespace, hyphen or period becomes a space
NormalizeChunk(c) ==
    CASE c \in {"<bullet>", "*", "<arrow>", "<triangle>"} -> <<" ">>
      [] c = "jane@mail.com" -> <<"jane", " ", "mail.com">>
      [] c = "20%" -> <<"20", " ">>
      [] OTHER -> <<Lower(c)>>

RECURSIVE NormalizeChunks(_)
NormalizeChunks(text) ==
    IF Len(text) = 0 THEN << >>
    ELSE NormalizeChunk(text[1]) \o NormalizeChunks(Tail(text))

\* normalize (section 4.1)
normalize(text) == Strip(CollapseWhitespace(NormalizeChunks(text)))

StopWords == {<<"the">>, <<"and">>, <<"for">>}

\* the terms a document yields: its words that are not stop words
Terms(text) == WordSet(text) \ StopWords

\* the vectorization backend: it fails when it is unavailable or when a
\* document yields no term
vectorize(resumeNormalized, jdNormalized, vectorizer) ==
    IF ~vectorizer.available THEN [exc |-> TRUE, cosine |-> Ratio(0, 1)]
    ELSE IF Terms(resumeNormalized) = {} \/ Terms(jdNormalized) = {}
        THEN [exc |-> TRUE, cosine |-> Ratio(0, 1)]
    ELSE IF resumeNormalized = jdNormalized THEN [exc |-> FALSE, cosine |-> Ratio(1, 1)]
    ELSE IF Terms(resumeNormalized) \cap Terms(jdNormalized) = {}
        THEN [exc |-> FALSE, cosine |-> Ratio(0, 1)]
    ELSE [exc |-> FALSE, cosine |-> vectorizer.cosine]

\* a similarity step that lets the failure of the backend through
similarityPropagating(resumeNormalized, jdNormalized, vectorizer) ==
    LET v == vectorize(resumeNormalized, jdNormalized, vectorizer)
    IN  [exc |-> v.exc, value |-> v.cosine]

\* similarity (section 4.2): the neutral 0.5 when the backend fails
similarity(resumeNormalized, jdNormalized, vectorizer) ==
    LET v == vectorize(resumeNormalized, jdNormalized, vectorizer)
    IN  IF v.exc THEN [exc |-> FALSE, value |-> Ratio(1, 2)]
        ELSE [exc |-> FALSE, value |-> v.cosine]

\* the pipeline: a failure of a step is a failure of the whole invocation
analyzeAts(rawResumeText, rawJdText, vocabulary, vectorizer) ==
    LET resumeNormalized == normalize(rawResumeText)
        jdNormalized == normalize(rawJdText)
        sim == similarity(resumeNormalized, jdNormalized, vectorizer)
    IN  IF sim.exc THEN [kind |-> "failed"]
        ELSE aggregate(sim.value,
                       analyzeKeywords(resumeNormalized, jdNormalized, vocabulary),
                       analyzeFormatting(rawResumeText),
                       analyzeContent(rawResumeText, rawJdText))

AnalyzeAts ==
    /\ inp.kind = "pipeline"
    /\ eng_out' = analyzeAts(inp.resume, inp.jd, inp.vocabulary, inp.vectorizer)
    /\ UNCHANGED <<sessionVars, ats_call, ats_mark, inp, out>>

Aggregate ==
    /\ inp.kind = "aggregate"
    /\ eng_out' = aggregate(inp.similarity, inp.keywordResult, inp.formattingResult,
                            inp.contentResult)
    /\ UNCHANGED <<sessionVars, ats_call, ats_mark, inp, out>>

(***************************************************************************)
(* The session state of app.py and its handlers.                           *)
(***************************************************************************)
HistoryCapacity == 10

\* current_analysis_id is None; entry ids are len(history) + 1 >= 1
NoId == 0

\* dict.get('score', 0) if analysis_results else 0
EntryScore(results) ==
    IF DOMAIN results # {} /\ "score" \in DOMAIN results THEN results["score"] ELSE JInt(0)

NewEntry(resume, job, results, model_used) ==
    [id |-> Len(analysis_history) + 1,
     timestamp |-> now,
     resume_text |-> resume,
     job_text |-> job,
     analysis_results |-> results,
     model_used |-> model_used,
     resume_words |-> IF Truthy(resume) THEN WordCount(resume) ELSE 0,
     job_words |-> IF Truthy(job) THEN WordCount(job) ELSE 0,
     score |-> EntryScore(results)]

\* a truncation that keeps the ten oldest entries (analysis_history[:10])
KeepFirst(h) == IF Len(h) > HistoryCapacity THEN SubSeq(h, 1, HistoryCapacity) ELSE h

\* analysis_history[-10:]
KeepLast(h) ==
    IF Len(h) > HistoryCapacity THEN SubSeq(h, Len(h) - HistoryCapacity + 1, Len(h)) ELSE h

\* save_analysis_to_history; datetime.now() is read once per save and the
\* clock has advanced before the next save
save_analysis_to_history(resume, job, results, model_used) ==
    LET analysis_entry == NewEntry(resume, job, results, model_used)
    IN  /\ analysis_history' = KeepLast(Append(analysis_history, analysis_entry))
        /\ current_analysis_id' = analysis_entry.id
        /\ now' = now + 1
        /\ saved' = Append(saved, analysis_entry)

\* the first entry of the history with the given id, 0 when there is none
FindEntry(analysis_id) ==
    LET P == {i \in 1..Len(analysis_history) : analysis_history[i].id = analysis_id}
    IN  IF P = {} THEN 0 ELSE CHOOSE i \in P : \A j \in P : i <= j

\* what a call leaves in the session and what it returns (found is FALSE
\* for None, and then entry is not meaningful)
LoadOutcome(found, entry, resume, job, results, id) ==
    [found |-> found, entry |-> entry, resume_text |-> resume, job_text |-> job,
     analysis_results |-> results, current_analysis_id |-> id]

\* a load that forgets to record which entry is being viewed
load_analysis_keeping_id(analysis_id) ==
    LET i == FindEntry(analysis_id)
    IN  IF i # 0
        THEN LoadOutcome(TRUE, analysis_history[i], analysis_history[i].resume_text,
                         analysis_history[i].job_text,
                         Some(analysis_history[i].analysis_results), current_analysis_id)
        ELSE LoadOutcome(FALSE, NewEntry(EmptyStr, EmptyStr, EmptyDict, EmptyStr),
                         resume_text, job_text, analysis_results, current_analysis_id)

\* load_analysis_from_history: the entry it returns and the four session
\* values after the call
load_analysis_from_history(analysis_id) ==
    LET i == FindEntry(analysis_id)
    IN  IF i # 0
        THEN LoadOutcome(TRUE, analysis_history[i], analysis_history[i].resume_text,
                         analysis_history[i].job_text,
                         Some(analysis_history[i].analysis_results), analysis_history[i].id)
        ELSE LoadOutcome(FALSE, NewEntry(EmptyStr, EmptyStr, EmptyDict, EmptyStr),
                         resume_text, job_text, analysis_results, current_analysis_id)

\* the model the sidebar selects by default for the chosen provider
selected_model(use_hf) ==
    IF use_hf THEN <<"mistralai/Mistral-7B-Instruct-v0.2">> ELSE <<"llama3.1">>

engineVars == <<ats_call, ats_mark, inp, eng_out, out>>

\* one call of load_analysis_from_history on the session as it is; out
\* keeps the argument, what was returned and the session before the call
LoadAnalysisFromHistory(analysis_id) ==
    /\ LET loaded == load_analysis_from_history(analysis_id)
       IN  /\ resume_text' = loaded.resume_text
           /\ job_text' = loaded.job_text
           /\ analysis_results' = loaded.analysis_results
           /\ current_analysis_id' = loaded.current_analysis_id
           /\ out' = [kind |-> "load", analysis_id |-> analysis_id,
                      found |-> loaded.found, entry |-> loaded.entry,
                      before |-> [resume_text |-> resume_text, job_text |-> job_text,
                                  analysis_results |-> analysis_results,
                                  current_analysis_id |-> current_analysis_id,
                                  analysis_history |-> analysis_history]]
    /\ UNCHANGED <<cover_letter, ats_results, analysis_history, now, widgets, saved>>
    /\ UNCHANGED <<ats_call, ats_mark, inp, eng_out>>

\* "Current analysis indicator": the position of the entry it shows, 0
\* when it shows none
CurrentEntry ==
    IF current_analysis_id # NoId THEN FindEntry(current_analysis_id) ELSE 0

(***************************************************************************)
(* Tab 1 on one run of the script.  Every run reads the widgets again: the *)
(* resume uploader, the radio that chooses how the job description is      *)
(* given ("upload" or "text"), the job description uploader and the text   *)
(* area.  The widget that the radio hides is not rendered and loses what   *)
(* it held.                                                                *)
(***************************************************************************)
Widgets(resume_file, jd_option, job_file, job_text_input) ==
    [resume_file |-> resume_file, jd_option |-> jd_option, job_file |-> job_file,
     job_text_input |-> job_text_input]

\* a fresh page: no file, the radio on its first option
NoWidgets == Widgets(NoFile, "upload", NoFile, EmptyStr)

\* "Auto-extract text when file is uploaded": the session text after the
\* uploader holding file was processed, text being the session text before
AutoExtract(file, text) ==
    IF file.present
    THEN LET extracted_text == extract_text_from_file(file).result
         IN  IF extracted_text.some /\ Truthy(extracted_text.val)
             THEN extracted_text.val
             ELSE text
    ELSE text

\* a text area whose content counts as soon as something was typed
AutoProcessAnyText(text) == IF Truthy(text) THEN text ELSE EmptyStr

\* "Auto-process text when entered"
AutoProcess(text) == IF Truthy(text) /\ Truthy(Strip(text)) THEN Strip(text) ELSE EmptyStr

\* session resume_text after tab 1 ran
RunResumeColumn(w, text) == AutoExtract(w.resume_file, text)

\* session job_text after tab 1 ran
RunJobColumn(w, text) ==
    IF w.jd_option = "upload" THEN AutoExtract(w.job_file, text)
    ELSE AutoProcess(w.job_text_input)

\* tab 1 up to the analysis button, for the widgets w and the session texts
\* resume and job that the sidebar left
RunTab1(w, resume, job) ==
    /\ resume_text' = RunResumeColumn(w, resume)
    /\ job_text' = RunJobColumn(w, job)

\* the user puts a file into the resume uploader or removes it (NoFile);
\* the script runs
ResumeUploaded(file) ==
    /\ widgets' = [widgets EXCEPT !.resume_file = file]
    /\ RunTab1(widgets', resume_text, job_text)
    /\ UNCHANGED <<analysis_results, cover_letter, ats_results, analysis_history,
                   current_analysis_id, now, saved>>
    /\ UNCHANGED engineVars

\* the user chooses "Upload File" for the job description, or has chosen
\* it, and puts a file into that uploader or removes it; the script runs
JobFileUploaded(file) ==
    /\ widgets' = [widgets EXCEPT !.jd_option = "upload", !.job_file = file,
                                  !.job_text_input = EmptyStr]
    /\ RunTab1(widgets', resume_text, job_text)
    /\ UNCHANGED <<analysis_results, cover_letter, ats_results, analysis_history,
                   current_analysis_id, now, saved>>
    /\ UNCHANGED engineVars

\* the user chooses "Enter Text", or has chosen it, and leaves text in the
\* text area; the script runs
JobTextEntered(text) ==
    /\ widgets' = [widgets EXCEPT !.jd_option = "text", !.job_file = NoFile,
                                  !.job_text_input = text]
    /\ RunTab1(widgets', resume_text, job_text)
    /\ UNCHANGED <<analysis_results, cover_letter, ats_results, analysis_history,
                   current_analysis_id, now, saved>>
    /\ UNCHANGED engineVars

\* the saved analyses that ended in the failure report
FailedSaves == {i \in 1..Len(saved) : saved[i].score = JInt(0)}

\* "Analyze Resume & Job Description": the button is disabled unless both
\* texts are present.  The run of the click passes tab 1 first.  With
\* Hugging Face chosen but not installed the sidebar binds neither
\* selected_model nor hf_token and the handler's try block ends in a
\* NameError before anything is stored.
AnalyzeButton(use_hf, hf_token, be) ==
    /\ Truthy(resume_text) /\ Truthy(job_text)
    /\ now < MaxSaves
    /\ be.ollama.raises => Cardinality(FailedSaves) < MaxFailed
    /\ RunTab1(widgets, resume_text, job_text)
    /\ LET resume == RunResumeColumn(widgets, resume_text)
           job == RunJobColumn(widgets, job_text)
       IN  IF ~(Truthy(resume) /\ Truthy(job)) \/ (use_hf /\ ~be.hf_available)
           THEN UNCHANGED <<analysis_results, analysis_history, current_analysis_id, now,
                            saved>>
           ELSE LET results == analyze_resume_vs_jd(use_hf, hf_token, be)
                IN  IF results.exc
                    THEN UNCHANGED <<analysis_results, analysis_history,
                                     current_analysis_id, now, saved>>
                    ELSE /\ analysis_results' = Some(results.val)
                         /\ save_analysis_to_history(resume, job, results.val,
                                                     selected_model(use_hf))
    /\ UNCHANGED <<cover_letter, ats_results, widgets>>
    /\ UNCHANGED engineVars

\* "Load" on the entry chosen in the history selectbox: the handler, and
\* the run of the script that follows it (st.rerun() after a loaded entry,
\* the rest of the same run otherwise)
LoadButton(selected_history) ==
    /\ Len(analysis_history) > 0
    /\ selected_history \in {analysis_history[i].id : i \in 1..Len(analysis_history)}
    /\ LET loaded == load_analysis_from_history(selected_history)
       IN  /\ RunTab1(widgets, loaded.resume_text, loaded.job_text)
           /\ analysis_results' = loaded.analysis_results
           /\ current_analysis_id' = loaded.current_analysis_id
    /\ UNCHANGED <<cover_letter, ats_results, analysis_history, now, widgets, saved>>
    /\ UNCHANGED engineVars

\* "Re-run" on the entry chosen in the history selectbox, and the run of
\* the script that follows it
RerunButton(selected_history) ==
    /\ Len(analysis_history) > 0
    /\ selected_history \in {analysis_history[i].id : i \in 1..Len(analysis_history)}
    /\ LET loaded == load_analysis_from_history(selected_history)
       IN  /\ RunTab1(widgets, loaded.resume_text, loaded.job_text)
           /\ analysis_results' = IF loaded.found THEN None ELSE loaded.analysis_results
           /\ current_analysis_id' = loaded.current_analysis_id
    /\ UNCHANGED <<cover_letter, ats_results, analysis_history, now, widgets, saved>>
    /\ UNCHANGED engineVars

\* a Clear History that leaves the indicator of the viewed analysis alone
ClearHistoryKeepingId ==
    /\ Len(analysis_history) > 0
    /\ analysis_history' = << >>
    /\ current_analysis_id' = current_analysis_id
    /\ saved' = << >>
    /\ RunTab1(widgets, resume_text, job_text)
    /\ UNCHANGED <<analysis_results, cover_letter, ats_results, now, widgets>>
    /\ UNCHANGED engineVars

\* "Clear History", and the rerun it asks for
ClearHistory ==
    /\ Len(analysis_history) > 0
    /\ analysis_history' = << >>
    /\ current_analysis_id' = NoId
    /\ saved' = << >>
    /\ RunTab1(widgets, resume_text, job_text)
    /\ UNCHANGED <<analysis_results, cover_letter, ats_results, now, widgets>>
    /\ UNCHANGED engineVars

\* "Start Fresh", and the rerun it asks for
StartFresh ==
    /\ RunTab1(widgets, EmptyStr, EmptyStr)
    /\ analysis_results' = None
    /\ cover_letter' = NoneStr
    /\ current_analysis_id' = NoId
    /\ UNCHANGED <<ats_results, analysis_history, now, widgets, saved>>
    /\ UNCHANGED engineVars

\* the call analyze_ats_score(resume_text, job_text, selected_model, use_hf, hf_token)
AtsCall(use_hf, hf_token, be) ==
    [called |-> TRUE, n |-> ats_call.n + 1, use_hf |-> use_hf, hf_token |-> hf_token,
     be |-> be, resume |-> RunResumeColumn(widgets, resume_text),
     job |-> RunJobColumn(widgets, job_text),
     out |-> analyze_ats_score(use_hf, hf_token, be)]

\* "Analyze ATS Score" (tab 3, shown when both texts are present; the run
\* of the click passes tab 1 first).  With Hugging Face chosen but not
\* installed the arguments raise a NameError and the function is not
\* called; remember tells whether the history variable ats_mark takes this
\* call.
AtsAnalyzeButton(use_hf, hf_token, be, remember) ==
    /\ Truthy(resume_text) /\ Truthy(job_text)
    /\ Truthy(RunResumeColumn(widgets, resume_text))
    /\ Truthy(RunJobColumn(widgets, job_text))
    /\ ats_call.n < MaxCalls
    /\ IF use_hf /\ ~be.hf_available
       THEN UNCHANGED <<ats_results, ats_call, ats_mark>>
       ELSE LET call == AtsCall(use_hf, IF use_hf THEN hf_token ELSE EmptyStr, be)
            IN  /\ ats_results' = IF call.out.exc THEN ats_results ELSE Some(call.out.val)
                /\ ats_call' = call
                /\ ats_mark' = IF remember THEN call ELSE ats_mark
    /\ RunTab1(widgets, resume_text, job_text)
    /\ UNCHANGED <<analysis_results, cover_letter, analysis_history, current_analysis_id,
                   now, widgets, saved, inp, eng_out, out>>

\* "Generate Cover Letter" (tab 4, shown when both texts are present; the
\* run of the click passes tab 1 first)
GenerateCoverButton(use_hf, hf_token, be) ==
    /\ Truthy(resume_text) /\ Truthy(job_text)
    /\ Truthy(RunResumeColumn(widgets, resume_text))
    /\ Truthy(RunJobColumn(widgets, job_text))
    /\ RunTab1(widgets, resume_text, job_text)
    /\ cover_letter' = IF use_hf /\ ~be.hf_available
                       THEN cover_letter
                       ELSE SomeStr(generate_cover_letter(
                                use_hf, IF use_hf THEN hf_token ELSE EmptyStr, be))
    /\ UNCHANGED <<analysis_results, ats_results, analysis_history, current_analysis_id,
                   now, widgets, saved>>
    /\ UNCHANGED engineVars

(***************************************************************************)
(* Tab 2 (Analysis Results): the levels shown for the match score and the  *)
(* level written into the downloadable reports.                            *)
(***************************************************************************)
\* an Experience Level whose boundaries are exclusive
ExperienceLevelExclusive(score) ==
    IF score > 80 THEN "Excellent"
    ELSE IF score > 60 THEN "Good"
    ELSE IF score > 40 THEN "Fair"
    ELSE "Poor"

\* "Experience Level based on score"
ExperienceLevel(score) ==
    IF score >= 80 THEN "Excellent"
    ELSE IF score >= 60 THEN "Good"
    ELSE IF score >= 40 THEN "Fair"
    ELSE "Poor"

\* "Overall Fit based on score"
OverallFit(score) ==
    IF score >= 85 THEN "Strong"
    ELSE IF score >= 70 THEN "Good"
    ELSE IF score >= 50 THEN "Moderate"
    ELSE "Weak"

\* "Performance Level" of the markdown and text reports
PerformanceLevel(score) ==
    IF score >= 80 THEN "Excellent"
    ELSE IF score >= 60 THEN "Good"
    ELSE IF score >= 40 THEN "Fair"
    ELSE "Needs Work"

\* a run of the script that shows tab 2 for the stored analysis; a score
\* that is not a number ends the run in a TypeError at the metric
RenderTab2 ==
    /\ analysis_results.some
    /\ LET score == analysis_results.val["score"]
       IN  out' = IF score.t = "int"
                  THEN [kind |-> "tab2", score |-> score.n,
                        exp_level |-> ExperienceLevel(score.n),
                        overall_fit |-> OverallFit(score.n),
                        performance_level |-> PerformanceLevel(score.n)]
                  ELSE [kind |-> "tab2_error"]
    /\ UNCHANGED <<sessionVars, ats_call, ats_mark, inp, eng_out>>

(***************************************************************************)
(* Inputs of the session.                                                  *)
(***************************************************************************)
Backend(hf_available, env_token, secrets, probe_ok, hf, ollama) ==
    [hf_available |-> hf_available, env_token |-> env_token, secrets |-> secrets,
     probe_ok |-> probe_ok, hf |-> hf, ollama |-> ollama]

NoSecrets == [raises |-> TRUE, token |-> EmptyStr]

HfUnused == [raises |-> TRUE, text |-> << >>]

OllamaUnused == [raises |-> TRUE, has_content |-> FALSE, msg |-> <<"connection refused">>,
                 text |-> << >>]

\* Ollama runs locally and answers with the given text
OllamaAnswers(text) ==
    Backend(TRUE, EmptyStr, NoSecrets, FALSE, HfUnused,
            [raises |-> FALSE, has_content |-> TRUE, msg |-> EmptyStr, text |-> text])

\* Ollama is not running
OllamaDown == Backend(TRUE, EmptyStr, NoSecrets, FALSE, HfUnused, OllamaUnused)

\* a complete answer to the analysis prompt
ArvGood ==
    [k \in arv_required_keys |->
        CASE k = "score" -> JInt(85)
          [] k = "skills_match" -> JInt(70)
          [] k = "required_skills_count" -> JInt(3)
          [] k = "found_skills_count" -> JInt(2)
          [] k = "missing_skills_count" -> JInt(1)
          [] k = "tone_grammar" -> JStr(<<"Professional">>)
          [] k = "summary" -> JStr(<<"Strong match">>)
          [] OTHER -> JList(<<<<"python">>>>)]

\* a text file in an uploader
TxtFile(content) == UploadedFile(<<"resume", ".", "txt">>, TRUE, content)

ResumeFiles == {TxtFile(<<"python", " ", "developer">>), NoFile}

JobTexts == {<<" ", "python", " ", "leadership", " ", "required">>, <<" ">>}

SessionBackends == {OllamaAnswers(<<TObj(ArvGood)>>), OllamaDown}

NoCall ==
    [called |-> FALSE, n |-> 0, use_hf |-> FALSE, hf_token |-> EmptyStr, be |-> OllamaDown,
     resume |-> EmptyStr, job |-> EmptyStr, out |-> Raised(EmptyStr)]

NoEngine == [kind |-> "none"]

NoOut == [kind |-> "none"]

SessionInit ==
    /\ resume_text = EmptyStr
    /\ job_text = EmptyStr
    /\ analysis_results = None
    /\ cover_letter = NoneStr
    /\ ats_results = None
    /\ analysis_history = << >>
    /\ current_analysis_id = NoId
    /\ now = 0
    /\ widgets = NoWidgets
    /\ saved = << >>

Init ==
    /\ SessionInit
    /\ ats_call = NoCall
    /\ ats_mark = NoCall
    /\ inp = NoEngine
    /\ eng_out = NoEngine
    /\ out = NoOut

Next ==
    \/ \E t \in ResumeFiles : ResumeUploaded(t)
    \/ \E t \in JobTexts : JobTextEntered(t)
    \/ \E be \in SessionBackends : AnalyzeButton(FALSE, EmptyStr, be)
    \/ \E id \in 1..(HistoryCapacity + 1) : LoadButton(id)
    \/ \E id \in 1..(HistoryCapacity + 1) : RerunButton(id)
    \/ ClearHistory
    \/ StartFresh

Spec == Init /\ [][Next]_vars

(***************************************************************************)
(* A short session with every handler: two resumes, a job description     *)
(* that is uploaded or typed, the analysis, the ATS analysis, the cover    *)
(* letter and the sidebar buttons.                                         *)
(***************************************************************************)
MaxAnalyses == 2

SessionResumes == {TxtFile(<<"python", " ", "developer">>), TxtFile(<<"manager">>), NoFile}

SessionJob == <<"python", " ", "leadership", " ", "required">>

SessionJobFiles == {UploadedFile(<<"job", ".", "PDF">>, TRUE, SessionJob), NoFile}

SessionJobTexts == {SessionJob, EmptyStr}

\* a complete answer to the ATS prompt
AtsAnswer ==
    [k \in ats_required_keys |->
        IF k \in ats_numeric_keys THEN JInt(75)
        ELSE IF k = "summary" THEN JStr(<<"Good">>)
        ELSE JList(<<<<"python">>>>)]

NextSession ==
    \/ \E f \in SessionResumes : ResumeUploaded(f)
    \/ \E f \in SessionJobFiles : JobFileUploaded(f)
    \/ \E t \in SessionJobTexts : JobTextEntered(t)
    \/ now < MaxAnalyses /\ AnalyzeButton(FALSE, EmptyStr, OllamaAnswers(<<TObj(ArvGood)>>))
    \/ \E id \in 1..MaxAnalyses : LoadButton(id)
    \/ \E id \in 1..MaxAnalyses : RerunButton(id)
    \/ ClearHistory
    \/ StartFresh
    \/ ~ats_call.called
           /\ AtsAnalyzeButton(FALSE, EmptyStr, OllamaAnswers(<<TObj(AtsAnswer)>>), FALSE)
    \/ ~cover_letter.some
           /\ GenerateCoverButton(FALSE, EmptyStr, OllamaAnswers(<<"Dear", " ", "team">>))

SpecSession == Init /\ [][NextSession]_vars

(***************************************************************************)
(* One call of load_analysis_from_history, with an id that is in the       *)
(* history or not, on a session that analyses and Start Fresh have built.  *)
(***************************************************************************)
LoadIds == 0..(HistoryCapacity + 2)

\* the session is built until the call is made
NextLoad ==
    \/ out.kind = "none" /\ \E f \in ResumeFiles : ResumeUploaded(f)
    \/ out.kind = "none" /\ \E t \in JobTexts : JobTextEntered(t)
    \/ out.kind = "none" /\ \E be \in SessionBackends : AnalyzeButton(FALSE, EmptyStr, be)
    \/ out.kind = "none" /\ StartFresh
    \/ out.kind = "none" /\ \E id \in LoadIds : LoadAnalysisFromHistory(id)

SpecLoad == Init /\ [][NextLoad]_vars

(***************************************************************************)
(* Inputs of analyze_ats_score: what the backend can answer.               *)
(***************************************************************************)
Restrict(d, K) == [k \in K |-> d[k]]

\* a complete answer to the ATS prompt
AtsGood ==
    [k \in ats_required_keys |->
        CASE k = "ats_score" -> JInt(82)
          [] k = "keyword_match_score" -> JInt(75)
          [] k = "formatting_score" -> JInt(90)
          [] k = "content_score" -> JInt(80)
          [] k = "summary" -> JStr(<<"Well optimised">>)
          [] OTHER -> JList(<<<<"docker">>>>)]

ShapeTokens ==
    {TSpace, TText, TLBrace, TRBrace, TObj(AtsGood), TVal(JList(<< >>)), TVal(JInt(42)),
     TVal(JNull), TVal(JStr(<<"ats_score">>))}

ShapeResponses == UNION {[1..m -> ShapeTokens] : m \in 0..MaxTokens}

ScoreAlphabet == {"0", "1", "5", "-", "+", " ", ".", "_"}

ScoreStrings == UNION {[1..m -> ScoreAlphabet] : m \in 0..MaxStrLen}

ScoreValues ==
    {JInt(n) : n \in {0 - 5, 0, 100, 150}} \cup {JNull, JList(<< >>)}
        \cup {JStr(x) : x \in ScoreStrings}

ListValues == {JStr(<<"none">>), JInt(3), JNull}

AtsObjects ==
    {Restrict(AtsGood, K) : K \in SUBSET ats_required_keys}
        \cup {DictSet(AtsGood, k, v) : k \in ats_numeric_keys, v \in ScoreValues}
        \cup {DictSet(AtsGood, k, v) : k \in ats_list_keys, v \in ListValues}
        \cup {DictSet(AtsGood, "confidence", JInt(1))}

AtsResponses == ShapeResponses \cup {<<TObj(o)>> : o \in AtsObjects}

GoodToken == <<"hf_", "abc">>

\* Hugging Face is installed, the token is accepted and the model answers
HfAnswers(text) ==
    Backend(TRUE, EmptyStr, NoSecrets, TRUE, [raises |-> FALSE, text |-> text], OllamaUnused)

HfBackends ==
    {Backend(hfa, envt, sec, probe, hf, OllamaUnused) :
        hfa \in BOOLEAN,
        envt \in {EmptyStr, <<"hf_", "env">>},
        sec \in {NoSecrets, [raises |-> FALSE, token |-> <<"hf_", "sec">>],
                 [raises |-> FALSE, token |-> EmptyStr]},
        probe \in BOOLEAN,
        hf \in {HfUnused, [raises |-> FALSE, text |-> << >>],
                [raises |-> FALSE, text |-> <<TSpace>>],
                [raises |-> FALSE, text |-> <<TObj(AtsGood)>>]}}

OllamaNoContent ==
    Backend(TRUE, EmptyStr, NoSecrets, FALSE, HfUnused,
            [raises |-> FALSE, has_content |-> FALSE, msg |-> EmptyStr, text |-> << >>])

AtsInput(use_hf, hf_token, be) ==
    [kind |-> "ats", use_hf |-> use_hf, hf_token |-> hf_token, be |-> be]

AtsInputs ==
    {AtsInput(FALSE, EmptyStr, OllamaAnswers(r)) : r \in AtsResponses}
        \cup {AtsInput(TRUE, GoodToken, HfAnswers(r)) : r \in AtsResponses}
        \cup {AtsInput(TRUE, tok, be) :
                tok \in {EmptyStr, GoodToken, <<"sk-", "abc">>}, be \in HfBackends}
        \cup {AtsInput(FALSE, EmptyStr, OllamaDown), AtsInput(FALSE, EmptyStr, OllamaNoContent)}

TheResume == <<"python", " ", "developer">>

TheJob == <<"python", " ", "leadership", " ", "required">>

\* the session once a resume and a job description have been provided
TextsProvided ==
    /\ resume_text = TheResume
    /\ job_text = TheJob
    /\ analysis_results = None
    /\ cover_letter = NoneStr
    /\ ats_results = None
    /\ analysis_history = << >>
    /\ current_analysis_id = NoId
    /\ now = 0
    /\ widgets = Widgets(TxtFile(TheResume), "text", NoFile, TheJob)
    /\ saved = << >>

InitAts ==
    /\ TextsProvided
    /\ ats_call = NoCall
    /\ ats_mark = NoCall
    /\ inp \in AtsInputs
    /\ eng_out = NoEngine
    /\ out = NoOut

\* one analysis of the drawn input
NextAts == ~ats_call.called /\ AtsAnalyzeButton(inp.use_hf, inp.hf_token, inp.be, FALSE)

SpecAts == InitAts /\ [][NextAts]_vars

(***************************************************************************)
(* One analysis whose score is shown in tab 2.                             *)
(***************************************************************************)
ArvInput(use_hf, hf_token, be) ==
    [kind |-> "arv", use_hf |-> use_hf, hf_token |-> hf_token, be |-> be]

TierScores == {JInt(n) : n \in 0..100} \cup {JNull}

TierInputs ==
    {ArvInput(FALSE, EmptyStr, OllamaAnswers(<<TObj(DictSet(ArvGood, "score", v))>>)) :
        v \in TierScores}

InitTiers ==
    /\ TextsProvided
    /\ ats_call = NoCall
    /\ ats_mark = NoCall
    /\ inp \in TierInputs
    /\ eng_out = NoEngine
    /\ out = NoOut

NextTiers ==
    \/ ~analysis_results.some /\ AnalyzeButton(inp.use_hf, inp.hf_token, inp.be)
    \/ RenderTab2

SpecTiers == InitTiers /\ [][NextTiers]_vars

(***************************************************************************)
(* Inputs of get_hf_client.                                                *)
(***************************************************************************)
ApiTokens == {EmptyStr, GoodToken, <<"sk-", "abc">>, <<"hf_">>, <<" ", "hf_", "abc">>}

HfClientBackends ==
    {Backend(hfa, envt, sec, probe, HfUnused, OllamaUnused) :
        hfa \in BOOLEAN,
        envt \in {EmptyStr, <<"hf_", "env">>, <<"sk-", "env">>},
        sec \in {NoSecrets, [raises |-> FALSE, token |-> <<"hf_", "sec">>],
                 [raises |-> FALSE, token |-> EmptyStr],
                 [raises |-> FALSE, token |-> <<"sk-", "sec">>]},
        probe \in BOOLEAN}

HfClientInputs ==
    {[kind |-> "hf_client", api_token |-> t, be |-> be] :
        t \in ApiTokens, be \in HfClientBackends}

InitHfClient ==
    /\ SessionInit
    /\ ats_call = NoCall
    /\ ats_mark = NoCall
    /\ inp \in HfClientInputs
    /\ eng_out = NoEngine
    /\ out = NoOut

NextHfClient == GetHfClient

SpecHfClient == InitHfClient /\ [][NextHfClient]_vars

(***************************************************************************)
(* Inputs of extract_text_from_file.                                       *)
(***************************************************************************)
NameChunks == {"resume", "pdf", "PDF", "Docx", "txt", "exe", "."}

\* names in which two pieces are always separated by a "."
FileNames ==
    {n \in UNION {[1..m -> NameChunks] : m \in 1..MaxNameLen} :
        \A i \in 1..(Len(n) - 1) : n[i] = "." \/ n[i + 1] = "."}

FileContents == {EmptyStr, <<" ", "python", " ", "developer", " ">>}

FileInputs ==
    {[kind |-> "file", file |-> UploadedFile(n, ok, c)] :
        n \in FileNames, ok \in BOOLEAN, c \in FileContents}
        \cup {[kind |-> "file", file |-> NoFile]}

InitExtract ==
    /\ SessionInit
    /\ ats_call = NoCall
    /\ ats_mark = NoCall
    /\ inp \in FileInputs
    /\ eng_out = NoEngine
    /\ out = NoOut

NextExtract == ExtractTextFromFile

SpecExtract == InitExtract /\ [][NextExtract]_vars

(***************************************************************************)
(* Inputs of the text preprocessing.                                       *)
(***************************************************************************)
TextAlphabet == {"a", "B", "7", "-", ".", " ", "\n", "<E-acute>"}

Texts == UNION {[1..m -> TextAlphabet] : m \in 0..MaxTextLen}

InitPreprocess ==
    /\ SessionInit
    /\ ats_call = NoCall
    /\ ats_mark = NoCall
    /\ inp \in {[kind |-> "text", text |-> t] : t \in Texts}
    /\ eng_out = NoEngine
    /\ out = NoOut

NextPreprocess == Preprocess

SpecPreprocess == InitPreprocess /\ [][NextPreprocess]_vars

(***************************************************************************)
(* Inputs of create_skills_bar_chart.                                      *)
(***************************************************************************)
SkillTexts ==
    {<<>>, <<"P", "y", "t", "h", "o", "n">>, <<"N", "o", "d", "e", ".", "j", "s">>,
     <<"J", "a", "v", "a", "S", "c", "r", "i", "p", "t">>,
     <<"M", "a", "c", "h", "i", "n", "e", " ", " ", "L", "e", "a", "r", "n", "i", "n", "g">>,
     <<"s", "q", "l", " ", "s", "e", "r", "v", "e", "r">>,
     <<"k", "e", "y", "w", "o", "r", "d", "s">>,
     <<"t", "r", "a", "i", "n", "i", "n", "g">>, <<"C", "+", "+">>,
     <<"d", "a", "t", "a", "-", "a", "n", "a", "l", "y", "s", "i", "s">>,
     <<"J", "a", "v", "a">>,
     <<"V", "u", "e", ".", "j", "s", " ", "a", "n", "d", " ", "A", "W", "S">>}

SkillsInput(resume, jd) == [kind |-> "skills", resume |-> resume, jd |-> jd]

SkillsInputs == {SkillsInput(r, j) : r \in SkillTexts, j \in SkillTexts}

InitSkills ==
    /\ TextsProvided
    /\ ats_call = NoCall
    /\ ats_mark = NoCall
    /\ inp \in SkillsInputs
    /\ eng_out = NoEngine
    /\ out = NoOut

NextSkills == CreateSkillsBarChart

SpecSkills == InitSkills /\ [][NextSkills]_vars

(***************************************************************************)
(* Inputs of analyze_resume_vs_jd: what the backend can answer.            *)
(***************************************************************************)
ArvObjects ==
    {Restrict(ArvGood, K) : K \in SUBSET arv_required_keys}
        \cup {DictSet(ArvGood, k, v) : k \in {"score", "skills_match"}, v \in ScoreValues}
        \cup {DictSet(ArvGood, k, v) : k \in arv_list_keys, v \in ListValues}
        \cup {DictSet(ArvGood, "confidence", JInt(1))}

ArvResponses ==
    ShapeResponses \cup {<<TObj(o)>> : o \in ArvObjects}
        \cup {<<TText, TObj(ArvGood), TText>>, <<TSpace, TObj(ArvGood)>>}

ArvHfBackends ==
    {Backend(hfa, envt, sec, probe, hf, OllamaUnused) :
        hfa \in BOOLEAN,
        envt \in {EmptyStr, <<"hf_", "env">>},
        sec \in {NoSecrets, [raises |-> FALSE, token |-> <<"hf_", "sec">>],
                 [raises |-> FALSE, token |-> EmptyStr]},
        probe \in BOOLEAN,
        hf \in {HfUnused, [raises |-> FALSE, text |-> << >>],
                [raises |-> FALSE, text |-> <<TSpace>>],
                [raises |-> FALSE, text |-> <<TObj(ArvGood)>>]}}

ArvInputs ==
    {ArvInput(FALSE, EmptyStr, OllamaAnswers(r)) : r \in ArvResponses}
        \cup {ArvInput(TRUE, GoodToken, HfAnswers(r)) : r \in ArvResponses}
        \cup {ArvInput(TRUE, tok, be) :
                tok \in {EmptyStr, GoodToken, <<"sk-", "abc">>}, be \in ArvHfBackends}
        \cup {ArvInput(FALSE, EmptyStr, OllamaDown), ArvInput(FALSE, EmptyStr, OllamaNoContent)}

InitArv ==
    /\ TextsProvided
    /\ ats_call = NoCall
    /\ ats_mark = NoCall
    /\ inp \in ArvInputs
    /\ eng_out = NoEngine
    /\ out = NoOut

NextArv == AnalyzeResumeVsJd

SpecArv == InitArv /\ [][NextArv]_vars

(***************************************************************************)
(* Repeated ATS analyses in one session.                                   *)
(***************************************************************************)
TwiceInputs ==
    {AtsInput(FALSE, EmptyStr, OllamaAnswers(<<TObj(AtsGood)>>)),
     AtsInput(FALSE, EmptyStr, OllamaAnswers(<<TObj(DictSet(AtsGood, "ats_score", JInt(40)))>>)),
     AtsInput(FALSE, EmptyStr, OllamaAnswers(<<TText>>)),
     AtsInput(FALSE, EmptyStr, OllamaDown),
     AtsInput(TRUE, GoodToken, HfAnswers(<<TObj(AtsGood)>>)),
     AtsInput(TRUE, EmptyStr, HfAnswers(<<TObj(AtsGood)>>))}

TwiceResumes == {TxtFile(TheResume), TxtFile(<<"manager">>)}

InitTwice ==
    /\ TextsProvided
    /\ ats_call = NoCall
    /\ ats_mark = NoCall
    /\ inp = NoEngine
    /\ eng_out = NoEngine
    /\ out = NoOut

NextTwice ==
    \/ \E t \in TwiceResumes : ResumeUploaded(t)
    \/ \E i \in TwiceInputs, remember \in BOOLEAN :
            AtsAnalyzeButton(i.use_hf, i.hf_token, i.be, remember)

SpecTwice == InitTwice /\ [][NextTwice]_vars

(***************************************************************************)
(* Inputs of the heuristic engine.                                         *)
(***************************************************************************)
MaxResumeWords == 2

\* "Common skills/keywords to look for"
common_skills ==
    {<<"python">>, <<"java">>, <<"javascript">>, <<"sql">>, <<"html">>, <<"css">>, <<"react">>,
     <<"angular">>, <<"vue">>, <<"node.js">>, <<"docker">>, <<"kubernetes">>, <<"aws">>,
     <<"azure">>, <<"gcp">>, <<"machine", " ", "learning">>, <<"ai">>,
     <<"data", " ", "analysis">>, <<"excel">>, <<"powerpoint">>, <<"word">>,
     <<"project", " ", "management">>, <<"agile">>, <<"scrum">>, <<"leadership">>,
     <<"communication">>, <<"teamwork">>, <<"problem", " ", "solving">>, <<"analytical">>,
     <<"research">>, <<"writing">>, <<"marketing">>, <<"sales">>,
     <<"customer", " ", "service">>, <<"finance">>, <<"accounting">>, <<"design">>,
     <<"creative">>, <<"management">>, <<"supervision">>, <<"training">>, <<"mentoring">>,
     <<"strategy">>, <<"planning">>, <<"organization">>}

ExampleVocabulary == {<<"python">>, <<"leadership">>, <<"agile">>}

EngineWords == {"python", "leadership", "java", "required", "developer"}

WordSeqs(n) == UNION {[1..m -> EngineWords] : m \in 0..n}

KeywordInput(resume, jd, vocabulary) ==
    [kind |-> "keywords", resume |-> resume, jd |-> jd, vocabulary |-> vocabulary,
     text |-> EmptyStr]

KeywordInputs ==
    {KeywordInput(JoinWords(r), JoinWords(j), v) :
        r \in WordSeqs(MaxResumeWords), j \in WordSeqs(MaxWords),
        v \in {ExampleVocabulary, common_skills}}

ExampleInput ==
    KeywordInput(<<"python", " ", "developer">>,
                 <<"python", " ", "leadership", " ", "required">>, ExampleVocabulary)

FormatMarkers == <<"<bullet>", "*", "Experience", "Work", "History", "jane@mail.com", "555.123.4567">>

FillerCounts == {0, 1, 50, 93, 99, 100, 500, 793, 800, 801}

Filler(n) == [i \in 1..(2 * n) |-> IF i % 2 = 1 THEN "lorem" ELSE " "]

\* the chosen markers, each followed by a space, then n plain words
RawText(M, n) ==
    LET picked == SelectSeq(FormatMarkers, LAMBDA c : c \in M)
        Spaced[i \in 0..Len(picked)] ==
            IF i = 0 THEN << >> ELSE Spaced[i - 1] \o <<picked[i], " ">>
    IN  Spaced[Len(picked)] \o Filler(n)

FormattingInput(text) ==
    [kind |-> "formatting", resume |-> EmptyStr, jd |-> EmptyStr, vocabulary |-> {},
     text |-> text]

FormattingInputs ==
    {FormattingInput(RawText(M, n)) :
        M \in SUBSET {FormatMarkers[i] : i \in 1..Len(FormatMarkers)}, n \in FillerCounts}

InitEngine ==
    /\ SessionInit
    /\ ats_call = NoCall
    /\ ats_mark = NoCall
    /\ inp \in KeywordInputs \cup FormattingInputs
    /\ eng_out = NoEngine
    /\ out = NoOut

NextEngine == AnalyzeKeywords \/ AnalyzeFormatting

SpecEngine == InitEngine /\ [][NextEngine]_vars

(***************************************************************************)
(* Inputs of the content quality analyzer: the resume takes any selection  *)
(* of the resume words, the job description a prefix of the job words.     *)
(***************************************************************************)
ResumePool ==
    <<"Developed", "developed", "implemented", "Managed", "20%", "5", "users", "python", "team">>

JdPool == <<"Python", "team", "sales", "users", "developed", "managed", "agile">>

\* the words of pool that are in M, in the order of pool, single-spaced
Pick(pool, M) == JoinWords(SelectSeq(pool, LAMBDA c : c \in M))

ContentInput(resume, jd) ==
    [kind |-> "content", resume |-> resume, jd |-> jd, vocabulary |-> {}, text |-> EmptyStr]

ContentInputs ==
    {ContentInput(Pick(ResumePool, M), JoinWords(SubSeq(JdPool, 1, n))) :
        M \in SUBSET {ResumePool[i] : i \in 1..Len(ResumePool)}, n \in 0..Len(JdPool)}

InitContent ==
    /\ SessionInit
    /\ ats_call = NoCall
    /\ ats_mark = NoCall
    /\ inp \in ContentInputs
    /\ eng_out = NoEngine
    /\ out = NoOut

NextContent == AnalyzeContent

SpecContent == InitContent /\ [][NextContent]_vars

(***************************************************************************)
(* Inputs of the aggregator: results the three analyzers produce.          *)
(***************************************************************************)
\* the job description asks for the first n keywords, the resume has the
\* first one or none
KeywordResults ==
    {analyzeKeywords(JoinWords(r), JoinWords(Take([i \in 1..Len(KeywordOrder) |->
                                                    KeywordOrder[i][1]], n)),
                     {KeywordOrder[i] : i \in 1..Len(KeywordOrder)}) :
        r \in {<< >>, <<"agile">>}, n \in 0..Len(KeywordOrder)}

FormattingResults == {analyzeFormatting(i.text) : i \in FormattingInputs}

ContentResults == {analyzeContent(i.resume, i.jd) : i \in ContentInputs}

SimilarityValues == {Ratio(1, 2), Ratio(1, 1)}

AggregateInputs ==
    [kind : {"aggregate"}, similarity : SimilarityValues, keywordResult : KeywordResults,
     formattingResult : FormattingResults, contentResult : ContentResults]

InitAggregate ==
    /\ SessionInit
    /\ ats_call = NoCall
    /\ ats_mark = NoCall
    /\ inp \in AggregateInputs
    /\ eng_out = NoEngine
    /\ out = NoOut

NextAggregate == Aggregate

SpecAggregate == InitAggregate /\ [][NextAggregate]_vars

(***************************************************************************)
(* Inputs of the pipeline.                                                 *)
(***************************************************************************)
PipelineResumes ==
    {EmptyStr, <<"the">>, <<"The", " ", "and">>, <<"*", " ", "Python", " ", "developer">>,
     <<"python", " ", "leadership">>,
     <<"Experience", " ", "jane@mail.com", " ", "Developed", " ", "python", " ", "20%">>}

PipelineJds ==
    {EmptyStr, <<"and">>, <<"python", " ", "leadership", " ", "required">>,
     <<"python", " ", "leadership">>, <<"sql", " ", "the">>}

Vectorizers ==
    {[available |-> FALSE, cosine |-> Ratio(0, 1)],
     [available |-> TRUE, cosine |-> Ratio(1, 3)],
     [available |-> TRUE, cosine |-> Ratio(2, 3)]}

PipelineInputs ==
    [kind : {"pipeline"}, resume : PipelineResumes, jd : PipelineJds,
     vocabulary : {ExampleVocabulary}, vectorizer : Vectorizers]

InitPipeline ==
    /\ SessionInit
    /\ ats_call = NoCall
    /\ ats_mark = NoCall
    /\ inp \in PipelineInputs
    /\ eng_out = NoEngine
    /\ out = NoOut

NextPipeline == AnalyzeAts

SpecPipeline == InitPipeline /\ [][NextPipeline]_vars

(***************************************************************************)
(* Inputs of generate_cover_letter: letters of n words, plain, padded with *)
(* whitespace, or inside a code fence.                                     *)
(***************************************************************************)
LetterWordCounts == {0, 1, 2, 249, 250, 251, 299, 300, 301, 302, 400}

LetterStyles == {"plain", "padded", "fenced", "fenced_spaced", "fence_open"}

\* n words, single-spaced
Words(n) == SubSeq(Filler(n), 1, 2 * n - 1)

Letter(style, n) ==
    CASE style = "plain" -> Words(n)
      [] style = "padded" -> <<" ", " ">> \o Filler(n) \o <<" ">>
      [] style = "fenced" -> <<Fence>> \o Words(n) \o <<Fence>>
      [] style = "fenced_spaced" -> <<Fence, " ">> \o Filler(n) \o <<Fence>>
      [] style = "fence_open" -> <<Fence, " ">> \o Words(n)

Letters == {Letter(style, n) : style \in LetterStyles, n \in LetterWordCounts}

CoverInput(use_hf, hf_token, be) ==
    [kind |-> "cover", use_hf |-> use_hf, hf_token |-> hf_token, be |-> be]

CoverInputs ==
    {CoverInput(FALSE, EmptyStr, OllamaAnswers(t)) : t \in Letters}
        \cup {CoverInput(TRUE, GoodToken, HfAnswers(t)) : t \in Letters}
        \cup {CoverInput(TRUE, tok, HfAnswers(Letter("plain", 2))) :
                tok \in {EmptyStr, <<"sk-", "abc">>}}
        \cup {CoverInput(FALSE, EmptyStr, OllamaDown),
              CoverInput(FALSE, EmptyStr, OllamaNoContent)}

InitCover ==
    /\ TextsProvided
    /\ ats_call = NoCall
    /\ ats_mark = NoCall
    /\ inp \in CoverInputs
    /\ eng_out = NoEngine
    /\ out = NoOut

NextCover == GenerateCoverLetter

SpecCover == InitCover /\ [][NextCover]_vars

(***************************************************************************)
(* C1: as long as the history is not cleared, it holds at most 10 entries  *)
(* and they are the last min(n, 10) of the n analyses saved, in the order  *)
(* they were saved; after 11 saves these are the 2nd to the 11th.          *)
(***************************************************************************)
C1_HistoryIsLastTenSaved ==
    LET n == Len(saved)
        m == IF n < 10 THEN n ELSE 10
    IN  /\ Len(analysis_history) <= 10
        /\ Len(analysis_history) = m
        /\ \A i \in 1..m : analysis_history[i] = saved[n - m + i]
        /\ n = 11 => analysis_history = SubSeq(saved, 2, 11)

C1_Witness ==
    /\ Len(saved) = 11
    /\ Len(analysis_history) = 10
    /\ analysis_history[1] = saved[2]
    /\ analysis_history[10] = saved[11]
    /\ saved[1] # saved[2]

(***************************************************************************)
(* The latest analyze_ats_score call, as the claims refer to it.           *)
(***************************************************************************)
CallApi == ChooseApi(ats_call.use_hf, ats_call.hf_token, ats_call.be)

CallParsed == ExtractJson(CallApi.text)

CallReport == ats_call.out.val

\* the report field k holds what the analysis answered for k: the value
\* itself, the integer its string denotes, or the one-element list of it
FromAnalysis(rep, d, k) ==
    /\ k \in DOMAIN d
    /\ \/ rep[k] = d[k]
       \/ /\ k \in ats_numeric_keys
          /\ d[k].t = "str"
          /\ PyInt(d[k].s).ok
          /\ rep[k] = JInt(PyInt(d[k].s).n)
       \/ /\ k \in ats_list_keys
          /\ d[k].t # "list"
          /\ rep[k] = JList(<<PyStr(d[k])>>)

IsZeroReport(rep) ==
    /\ \A k \in ats_numeric_keys : rep[k] = JInt(0)
    /\ \A k \in ats_list_keys : rep[k].t = "list" /\ Len(rep[k].l) = 1
    /\ rep["summary"].t = "str"
    /\ Len(rep["summary"].s) > 0
    /\ rep["summary"].s[1] = "ATS analysis failed: "

PlaceholderScore(k) ==
    CASE k = "ats_score" -> 75
      [] k = "keyword_match_score" -> 70
      [] k = "formatting_score" -> 80
      [] k = "content_score" -> 75

\* the value of a field the analysis did not supply
IsPlaceholder(rep, k) ==
    CASE k \in ats_numeric_keys -> rep[k] = JInt(PlaceholderScore(k))
      [] k \in ats_list_keys -> rep[k].t = "list" /\ Len(rep[k].l) >= 1
      [] OTHER -> rep[k].t = "str" /\ Len(rep[k].s) >= 1

(***************************************************************************)
(* C2: analyze_ats_score never raises and, whatever the backend does       *)
(* (raises, no client, empty response, no JSON, JSON that is not an        *)
(* object, object lacking keys), returns a report with all eleven keys.    *)
(***************************************************************************)
C2_AtsReportComplete ==
    ats_call.called =>
        /\ ~ats_call.out.exc
        /\ Cardinality(ats_required_keys) = 11
        /\ ats_required_keys \subseteq DOMAIN CallReport
        /\ ats_results = Some(CallReport)

C2_Witness ==
    /\ ats_call.called
    /\ ~ats_call.use_hf
    /\ ~CallApi.exc
    /\ CallParsed.ok /\ ~CallParsed.isdict
    /\ ats_results.some
    /\ ats_required_keys \subseteq DOMAIN ats_results.val

(***************************************************************************)
(* C3: when the invocation fails (the backend call raises, no client or    *)
(* no response is obtained) the report handed to the UI has the four       *)
(* scores at 0 and a summary that describes the failure.                   *)
(***************************************************************************)
C3_FailureGivesZeroReport ==
    (ats_call.called /\ CallApi.exc) =>
        /\ ats_results.some
        /\ \A k \in ats_numeric_keys : ats_results.val[k] = JInt(0)
        /\ ats_results.val["summary"].t = "str"
        /\ LET summary == ats_results.val["summary"].s
           IN  /\ Len(summary) >= 1 + Len(CallApi.msg)
               /\ summary[1] = "ATS analysis failed: "
               /\ SubSeq(summary, 2, 1 + Len(CallApi.msg)) = CallApi.msg

C3_Witness ==
    /\ ats_call.called
    /\ ats_call.use_hf
    /\ CallApi.exc
    /\ CallApi.msg = MsgNoResponse
    /\ ats_results.some
    /\ ats_results.val["ats_score"] = JInt(0)

(***************************************************************************)
(* C4: recovery is total, never per field.  As claimed: every report is    *)
(* either the zeroed fallback or made of the analysis output only.         *)
(***************************************************************************)
C4_Original ==
    ats_call.called =>
        \/ IsZeroReport(CallReport)
        \/ /\ ~CallApi.exc
           /\ CallParsed.ok /\ CallParsed.isdict
           /\ \A k \in ats_required_keys : FromAnalysis(CallReport, CallParsed.d, k)

(***************************************************************************)
(* C4 as amended: the zeroed fallback report is returned only when an      *)
(* exception is raised (backend failure, or JSON that is not an object);   *)
(* a response that is not JSON gives the placeholder report with scores    *)
(* 75/70/80/75; for a JSON object recovery is per field: a missing key     *)
(* gets its placeholder, a score string that is not an integer becomes     *)
(* 75, every other field is the one of the analysis.                       *)
(***************************************************************************)
C4_RecoveryPerField ==
    ats_call.called =>
        IF CallApi.exc \/ (CallParsed.ok /\ ~CallParsed.isdict)
        THEN IsZeroReport(CallReport)
        ELSE IF ~CallParsed.ok
        THEN \A k \in ats_required_keys : IsPlaceholder(CallReport, k)
        ELSE \A k \in ats_required_keys :
                IF k \notin DOMAIN CallParsed.d
                THEN IsPlaceholder(CallReport, k)
                ELSE \/ FromAnalysis(CallReport, CallParsed.d, k)
                     \/ /\ k \in ats_numeric_keys
                        /\ CallParsed.d[k].t = "str"
                        /\ ~PyInt(CallParsed.d[k].s).ok
                        /\ CallReport[k] = JInt(75)

C4_Witness ==
    /\ ats_call.called
    /\ ~CallApi.exc
    /\ CallParsed.ok /\ CallParsed.isdict
    /\ "ats_score" \notin DOMAIN CallParsed.d
    /\ "content_score" \in DOMAIN CallParsed.d
    /\ CallReport["ats_score"] = JInt(75)
    /\ CallReport["content_score"] = JInt(80)

(***************************************************************************)
(* C5: in every report the four scores are numbers in 0..100, whatever     *)
(* the backend put in those fields.                                        *)
(***************************************************************************)
C5_ScoresInRange ==
    ats_call.called =>
        \A k \in ats_numeric_keys :
            /\ CallReport[k].t = "int"
            /\ CallReport[k].n >= 0
            /\ CallReport[k].n <= 100

C7_Original ==
    (/\ ats_call.called
     /\ \A k \in ats_numeric_keys :
            CallReport[k].t = "int" /\ CallReport[k].n >= 0 /\ CallReport[k].n <= 100) =>
        LET base == 3 * CallReport["keyword_match_score"].n
                    + 2 * CallReport["formatting_score"].n
                    + 2 * CallReport["content_score"].n
        IN  /\ base <= 10 * CallReport["ats_score"].n
            /\ 10 * CallReport["ats_score"].n <= 300 + base

(***************************************************************************)
(* C7 as amended: the overall score is not computed from the sub-scores:   *)
(* it is the ats_score value of the backend's JSON object (a string is     *)
(* replaced by the integer it denotes, or by 75 when it denotes none), 75  *)
(* when the key is missing or the response is not JSON, and 0 when the     *)
(* analysis raises.                                                        *)
(***************************************************************************)
C7_OverallIsBackendScore ==
    ats_call.called =>
        CallReport["ats_score"] =
            IF CallApi.exc \/ (CallParsed.ok /\ ~CallParsed.isdict) THEN JInt(0)
            ELSE IF ~CallParsed.ok \/ "ats_score" \notin DOMAIN CallParsed.d THEN JInt(75)
            ELSE IF CallParsed.d["ats_score"].t # "str" THEN CallParsed.d["ats_score"]
            ELSE IF PyInt(CallParsed.d["ats_score"].s).ok
                 THEN JInt(PyInt(CallParsed.d["ats_score"].s).n)
                 ELSE JInt(75)

C7_Witness ==
    /\ ats_call.called
    /\ ~CallApi.exc
    /\ CallParsed.ok /\ CallParsed.isdict
    /\ "ats_score" \in DOMAIN CallParsed.d
    /\ CallParsed.d["ats_score"] = JInt(0)
    /\ CallReport["ats_score"] = JInt(0)
    /\ CallReport["keyword_match_score"] = JInt(75)
    /\ CallReport["formatting_score"] = JInt(90)
    /\ CallReport["content_score"] = JInt(80)

(***************************************************************************)
(* The engine input and its word sets, as the claims refer to them.        *)
(***************************************************************************)
JdKeywords == WordSet(inp.jd) \cap inp.vocabulary

Penalty(failed, points) == IF failed THEN points ELSE 0

(***************************************************************************)
(* C8: found and missing are disjoint, their union is the set of job       *)
(* description words that are in the vocabulary, and found holds those of  *)
(* them that occur among the whitespace-delimited words of the resume.     *)
(***************************************************************************)
C8_FoundMissingPartition ==
    eng_out.kind = "keywords" =>
        /\ eng_out.found \cap eng_out.missing = {}
        /\ eng_out.found \cup eng_out.missing = JdKeywords
        /\ eng_out.found = {w \in JdKeywords : w \in WordSet(inp.resume)}

C8_Witness ==
    /\ eng_out.kind = "keywords"
    /\ inp.vocabulary = common_skills
    /\ eng_out.found = {<<"python">>}
    /\ eng_out.missing = {<<"leadership">>}
    /\ <<"java">> \in WordSet(inp.resume)

(***************************************************************************)
(* C9: matchPercentage is 100*|found|/|jdKeywords| when jdKeywords is not  *)
(* empty and 0 when it is, so it lies in [0,100]; the example of the       *)
(* specification gives found {python}, missing {leadership} and 50.        *)
(***************************************************************************)
C9_MatchPercentage ==
    eng_out.kind = "keywords" =>
        LET mp == eng_out.matchPercentage
        IN  /\ mp.den > 0
            /\ JdKeywords # {} =>
                    mp.num * Cardinality(JdKeywords) = 100 * Cardinality(eng_out.found) * mp.den
            /\ JdKeywords = {} => mp.num = 0
            /\ 0 <= mp.num /\ mp.num <= 100 * mp.den
            /\ inp = ExampleInput =>
                    /\ eng_out.found = {<<"python">>}
                    /\ eng_out.missing = {<<"leadership">>}
                    /\ mp.num = 50 * mp.den

C9_Witness ==
    /\ eng_out.kind = "keywords"
    /\ inp = ExampleInput
    /\ eng_out.matchPercentage.num = 50 * eng_out.matchPercentage.den

(***************************************************************************)
(* C10: the formatting score is 100 minus 15 without a bullet marker,      *)
(* minus 20 without a section header, minus 10 below 100 words or else     *)
(* minus 5 above 800 words, minus 10 without e-mail or phone; it stays in  *)
(* 0..100, and a 50-word text failing every check scores 45.               *)
(***************************************************************************)
C10_FormattingScore ==
    eng_out.kind = "formatting" =>
        LET wc == WordCount(inp.text)
            short == wc < 100
            long == wc > 800
        IN  /\ ~(short /\ long)
            /\ eng_out.score =
                    100 - Penalty(~HasBullet(inp.text), 15) - Penalty(~HasHeader(inp.text), 20)
                        - Penalty(short, 10) - Penalty(~short /\ long, 5)
                        - Penalty(~HasContact(inp.text), 10)
            /\ eng_out.score \in 0..100
            /\ (/\ wc = 50
                /\ ~HasBullet(inp.text)
                /\ ~HasHeader(inp.text)
                /\ ~HasContact(inp.text)) => eng_out.score = 45

C10_Witness ==
    /\ eng_out.kind = "formatting"
    /\ WordCount(inp.text) = 50
    /\ ~HasBullet(inp.text)
    /\ ~HasHeader(inp.text)
    /\ ~HasContact(inp.text)
    /\ eng_out.score = 45

(***************************************************************************)
(* C11: the content score of a (resume, job description) pair is 100 minus *)
(* 15 when fewer than 3 action-verb matches are found, minus 20 when no    *)
(* quantified achievement is found, minus 25 when the raw lowercase word   *)
(* overlap of the two texts has fewer than 5 words; it is never below 0    *)
(* or above 100, and one issue is listed per failed check.                 *)
(***************************************************************************)
C11_ContentScore ==
    eng_out.kind = "content" =>
        LET fewVerbs == ActionVerbMatches(inp.resume) < 3
            noMetric == ~HasQuantified(inp.resume)
            lowOverlap == Cardinality(LowerWords(inp.resume) \cap LowerWords(inp.jd)) < 5
        IN  /\ eng_out.score =
                    100 - Penalty(fewVerbs, 15) - Penalty(noMetric, 20) - Penalty(lowOverlap, 25)
            /\ eng_out.score \in 0..100
            /\ Len(eng_out.issues) =
                    Penalty(fewVerbs, 1) + Penalty(noMetric, 1) + Penalty(lowOverlap, 1)

\* three action verbs, no metric and an overlap of two words: 100 - 20 - 25
C11_Witness ==
    /\ eng_out.kind = "content"
    /\ ActionVerbMatches(inp.resume) >= 3
    /\ ~HasQuantified(inp.resume)
    /\ Cardinality(LowerWords(inp.resume) \cap LowerWords(inp.jd)) \in 1..4
    /\ eng_out.score = 55

(***************************************************************************)
(* C12: the optimization tips of a report are at most 10; they are, in     *)
(* this order, the low-match warning (present exactly when the match       *)
(* percentage is below 50), at most 5 missing keywords, at most 3          *)
(* formatting issues, at most 3 content issues and then generic tips; a    *)
(* generic tip only fills a slot the specific tips leave free, and no      *)
(* specific tip is dropped while a generic tip is kept.                    *)
(***************************************************************************)
TipRank(t) ==
    IF t = LowMatchWarning THEN 1
    ELSE IF t \in inp.keywordResult.missing THEN 2
    ELSE IF \E i \in 1..Len(inp.formattingResult.issues) : t = <<inp.formattingResult.issues[i]>>
        THEN 3
    ELSE IF \E i \in 1..Len(inp.contentResult.issues) : t = <<inp.contentResult.issues[i]>>
        THEN 4
    ELSE 5

\* the tips of rank r, in their order
TipsOfRank(tips, r) == SelectSeq(tips, LAMBDA t : TipRank(t) = r)

\* the specific tips the inputs call for, each list capped
SpecificTips ==
    (IF inp.keywordResult.matchPercentage.num < 50 * inp.keywordResult.matchPercentage.den
        THEN <<LowMatchWarning>> ELSE << >>)
    \o Take(Sorted(inp.keywordResult.missing), 5)
    \o Take(AsTips(inp.formattingResult.issues), 3)
    \o Take(AsTips(inp.contentResult.issues), 3)

C12_TipsOrderedAndCapped ==
    eng_out.kind = "report" =>
        LET tips == eng_out.optimizationTips
            mp == inp.keywordResult.matchPercentage
            generic == TipsOfRank(tips, 5)
        IN  /\ Len(tips) <= 10
            /\ \A i, j \in 1..Len(tips) : i < j => TipRank(tips[i]) <= TipRank(tips[j])
            /\ (Len(TipsOfRank(tips, 1)) = 1) <=> (mp.num < 50 * mp.den)
            /\ Len(TipsOfRank(tips, 1)) <= 1
            /\ Len(TipsOfRank(tips, 2)) <= 5
            /\ Len(TipsOfRank(tips, 3)) <= 3
            /\ Len(TipsOfRank(tips, 4)) <= 3
            /\ \A i \in 1..Len(generic) : generic[i] = GenericTips[i]
            /\ Len(generic) = Min(5, Max(0, 10 - Len(SpecificTips)))
            /\ Len(generic) > 0 => SubSeq(tips, 1, Len(SpecificTips)) = SpecificTips
            /\ Len(generic) = 0 => tips = Take(SpecificTips, 10)

\* seven specific tips leave three slots to the generic tips
C12_Witness ==
    /\ eng_out.kind = "report"
    /\ Len(SpecificTips) = 7
    /\ Len(eng_out.optimizationTips) = 10
    /\ Len(TipsOfRank(eng_out.optimizationTips, 4)) = 2
    /\ Len(TipsOfRank(eng_out.optimizationTips, 5)) = 3

(***************************************************************************)
(* C13 as stated: for a score in 0..100 the level is chosen by the         *)
(* boundaries 80, 60 and 40, is monotone in the score, and every place of  *)
(* tab 2 and of the report that derives a level from the score picks the   *)
(* same one of the four levels.                                            *)
(***************************************************************************)
LevelRank(level) ==
    CASE level \in {"Excellent", "Strong"} -> 4
      [] level = "Good" -> 3
      [] level \in {"Fair", "Moderate"} -> 2
      [] level \in {"Poor", "Needs Work", "Weak"} -> 1

BoundaryRank(score, hi, mid, lo) ==
    IF score >= hi THEN 4 ELSE IF score >= mid THEN 3 ELSE IF score >= lo THEN 2 ELSE 1

C13_Original ==
    out.kind = "tab2" =>
        /\ LevelRank(out.exp_level) = BoundaryRank(out.score, 80, 60, 40)
        /\ LevelRank(out.performance_level) = LevelRank(out.exp_level)
        /\ LevelRank(out.overall_fit) = LevelRank(out.exp_level)

(***************************************************************************)
(* C13: for a score in 0..100 the Experience Level of tab 2 and the        *)
(* Performance Level of the report are chosen by the boundaries 80, 60 and *)
(* 40, are monotone in the score and agree; the Overall Fit of tab 2 is    *)
(* chosen from the same score by the boundaries 85, 70 and 50, so it is    *)
(* the same level or the one below.                                        *)
(***************************************************************************)
C13_LevelsByBoundaries ==
    out.kind = "tab2" =>
        /\ out.score \in 0..100
        /\ LevelRank(out.exp_level) = BoundaryRank(out.score, 80, 60, 40)
        /\ LevelRank(out.performance_level) = LevelRank(out.exp_level)
        /\ \A lower \in 0..out.score :
                LevelRank(ExperienceLevel(lower)) <= LevelRank(out.exp_level)
        /\ LevelRank(out.overall_fit) = BoundaryRank(out.score, 85, 70, 50)
        /\ LevelRank(out.overall_fit) \in
                {LevelRank(out.exp_level) - 1, LevelRank(out.exp_level)}

\* a score of 82 is shown as Excellent and as a Good fit
C13_Witness ==
    /\ out.kind = "tab2"
    /\ out.score = 82
    /\ out.exp_level = "Excellent"
    /\ out.performance_level = "Excellent"
    /\ out.overall_fit = "Good"

(***************************************************************************)
(* C14: for every text, the empty one included, the preprocessed text has  *)
(* only lower-case letters, digits, spaces, hyphens and periods, has no    *)
(* two consecutive spaces and no leading or trailing space; the empty text *)
(* gives the empty text, and preprocessing the result again changes        *)
(* nothing.                                                                *)
(***************************************************************************)
NormalizedChars == {"a", "b", "7", "-", ".", " "}

C14_NormalizedAndIdempotent ==
    out.kind = "normalized" =>
        LET t == out.text
        IN  /\ \A i \in 1..Len(t) : t[i] \in NormalizedChars
            /\ \A i \in 1..(Len(t) - 1) : ~(t[i] = " " /\ t[i + 1] = " ")
            /\ Len(t) > 0 => t[1] # " " /\ t[Len(t)] # " "
            /\ Len(inp.text) = 0 => t = EmptyStr
            /\ preprocess_text_for_visualization(t) = t

\* "B7\na" becomes "b a"
C14_Witness ==
    /\ out.kind = "normalized"
    /\ inp.text = <<"B", "7", "\n", "a">>
    /\ out.text = <<"b", " ", "a">>

(***************************************************************************)
(* C15: when a document is empty or yields no term, or the vectorization   *)
(* backend is unavailable, the similarity is the neutral 0.5 and the       *)
(* invocation does not fail: the report is produced with the results of    *)
(* the other analyzers and the weighted sum taken with 0.5.                *)
(***************************************************************************)
SimilarityDegraded ==
    \/ ~inp.vectorizer.available
    \/ Terms(normalize(inp.resume)) = {}
    \/ Terms(normalize(inp.jd)) = {}

C15_SimilarityFallback ==
    (eng_out.kind # "none" /\ inp.kind = "pipeline") =>
        /\ eng_out.kind = "report"
        /\ SimilarityDegraded =>
                LET kw == analyzeKeywords(normalize(inp.resume), normalize(inp.jd),
                                          inp.vocabulary)
                    fmt == analyzeFormatting(inp.resume)
                    cnt == analyzeContent(inp.resume, inp.jd)
                IN  /\ 2 * eng_out.similarity.num = eng_out.similarity.den
                    /\ eng_out.keywordMatchScore = kw.matchPercentage
                    /\ eng_out.formattingScore = fmt.score
                    /\ eng_out.contentScore = cnt.score
                    /\ eng_out.atsScore =
                            WeightedSum(Ratio(1, 2), kw.matchPercentage, fmt.score, cnt.score)

\* an empty job description with the backend available
C15_Witness ==
    /\ eng_out.kind = "report"
    /\ inp.vectorizer.available
    /\ inp.jd = EmptyStr
    /\ Len(inp.resume) > 0
    /\ eng_out.similarity = Ratio(1, 2)
    /\ eng_out.formattingScore = 75

(***************************************************************************)
(* The analyze_resume_vs_jd call of the drawn input, as the claims refer   *)
(* to it.                                                                  *)
(***************************************************************************)
ArvClient == get_hf_client(inp.hf_token, inp.be)

ArvCompletion == hf_chat_completion(ArvClient, inp.be)

ArvAnswer == ExtractJson(ArvCompletion.val)

IsArvFailed(rep) ==
    /\ rep["score"] = JInt(0)
    /\ rep["skills_match"] = JInt(0)
    /\ rep["summary"].t = "str"
    /\ Len(rep["summary"].s) > 0
    /\ rep["summary"].s[1] = "Analysis failed: "

(***************************************************************************)
(* C16: when analyze_resume_vs_jd is called with use_hf, the Hugging Face  *)
(* library is available, a client is obtained and the completion is a      *)
(* non-empty response holding a valid JSON object, the function returns    *)
(* the analysis of that response (its score, skills_match and lists), not  *)
(* the "Analysis failed" fallback, and Ollama is not called.               *)
(***************************************************************************)
C16_HfAnalysisReturned ==
    (/\ out.kind = "arv"
     /\ inp.use_hf
     /\ inp.be.hf_available
     /\ ArvClient.some
     /\ ArvCompletion.some
     /\ Len(ArvCompletion.val) > 0
     /\ ArvAnswer.ok
     /\ ArvAnswer.isdict) =>
        /\ ~out.ollama_called
        /\ ~out.result.exc
        /\ ~IsArvFailed(out.result.val)
        /\ \A k \in {"score", "skills_match"} :
                (k \in DOMAIN ArvAnswer.d /\ ArvAnswer.d[k].t = "int") =>
                    out.result.val[k] = ArvAnswer.d[k]
        /\ \A k \in arv_list_keys :
                (k \in DOMAIN ArvAnswer.d /\ ArvAnswer.d[k].t = "list") =>
                    out.result.val[k] = ArvAnswer.d[k]

(***************************************************************************)
(* C20: analyze_resume_vs_jd never raises and, whatever the backend does   *)
(* (raises, unparsable response, JSON missing keys, JSON that is not an    *)
(* object), returns a dict with all twelve required keys, the five         *)
(* list-valued ones holding lists.                                         *)
(***************************************************************************)
C20_ArvReportComplete ==
    out.kind = "arv" =>
        /\ ~out.result.exc
        /\ arv_required_keys \subseteq DOMAIN out.result.val
        /\ Cardinality(arv_required_keys) = 12
        /\ Cardinality(arv_list_keys) = 5
        /\ \A k \in arv_list_keys : out.result.val[k].t = "list"

\* Ollama answers text that is not JSON: the seven keys of the parse
\* fallback are completed to twelve
C20_Witness ==
    /\ out.kind = "arv"
    /\ ~inp.use_hf
    /\ ~inp.be.ollama.raises
    /\ inp.be.ollama.text = <<TText>>
    /\ out.result.val["score"] = JInt(75)
    /\ out.result.val["required_skills_count"] = JInt(8)
    /\ out.result.val["found_skills"].t = "list"

(***************************************************************************)
(* The generate_cover_letter call of the drawn input, as the claims refer  *)
(* to it: the text the backend produced, when it produced one.             *)
(***************************************************************************)
CoverResponded == ~ClChooseApi(inp.use_hf, inp.hf_token, inp.be).exc

CoverResponse == IF inp.use_hf THEN inp.be.hf.text ELSE inp.be.ollama.text

(***************************************************************************)
(* C17 as stated: the returned letter has at most 300 words; a response of *)
(* more than 300 words is cut to its first 250 words followed by "...",    *)
(* and a response of at most 300 words is returned with its words          *)
(* unchanged.                                                              *)
(***************************************************************************)
C17_Original ==
    out.kind = "cover_letter" =>
        /\ WordCount(out.text) <= MaxLetterWords
        /\ CoverResponded =>
                IF WordCount(CoverResponse) > MaxLetterWords
                THEN out.text = Join(SubSeq(Split(CoverResponse), 1, TruncatedWords)) \o <<"...">>
                ELSE Split(out.text) = Split(CoverResponse)

(***************************************************************************)
(* C17: the returned letter has at most 300 words.  The response is first  *)
(* stripped and, when it starts and ends with a code fence, freed of the   *)
(* fence; if more than 300 words are left it is cut to their first 250     *)
(* followed by "...", otherwise those words are returned unchanged.  The   *)
(* fallback letter of a failed call is within the limit too.               *)
(***************************************************************************)
C17_LetterWithinLimit ==
    out.kind = "cover_letter" =>
        /\ WordCount(out.text) <= MaxLetterWords
        /\ WordCount(FallbackLetter) <= MaxLetterWords
        /\ ~CoverResponded => out.text = FallbackLetter
        /\ CoverResponded =>
                LET cleaned == ClCleanFence(Strip(CoverResponse))
                IN  IF WordCount(cleaned) > MaxLetterWords
                    THEN /\ out.text = Join(SubSeq(Split(cleaned), 1, TruncatedWords)) \o <<"...">>
                         /\ WordCount(out.text) = TruncatedWords
                    ELSE Split(out.text) = Split(cleaned)

\* a plain response of 301 words is cut to 250
C17_Witness ==
    /\ out.kind = "cover_letter"
    /\ CoverResponded
    /\ CoverResponse = Letter("plain", 301)
    /\ WordCount(out.text) = TruncatedWords
    /\ out.text[Len(out.text)] = "..."

(***************************************************************************)
(* C18: get_hf_client never raises; it returns a client only when a token  *)
(* was found (the argument, else HF_TOKEN of the environment, else the     *)
(* secrets), the token starts with "hf_" and the probe request with it     *)
(* succeeded, and None in every other case; for a missing token or one     *)
(* that does not start with "hf_" no client is created and no request is   *)
(* sent.                                                                   *)
(***************************************************************************)
\* the token the call finds, empty when there is none
FoundToken ==
    IF Truthy(inp.api_token) THEN inp.api_token
    ELSE IF Truthy(inp.be.env_token) THEN inp.be.env_token
    ELSE IF inp.be.secrets.raises THEN EmptyStr
    ELSE inp.be.secrets.token

C18_ClientOnlyForProbedHfToken ==
    out.kind = "hf_client" =>
        /\ ~out.client.exc
        /\ out.client.some <=>
                (/\ inp.be.hf_available
                 /\ Truthy(FoundToken)
                 /\ StartsWithHf(FoundToken)
                 /\ inp.be.probe_ok)
        /\ out.client.some => out.client.val = FoundToken
        /\ (~Truthy(FoundToken) \/ ~StartsWithHf(FoundToken)) =>
                ~out.client.created /\ ~out.client.probed

\* no argument, the environment gives the token and the probe succeeds
C18_Witness ==
    /\ out.kind = "hf_client"
    /\ inp.api_token = EmptyStr
    /\ inp.be.env_token = <<"hf_", "env">>
    /\ out.client.some
    /\ out.client.val = <<"hf_", "env">>
    /\ out.client.probed

(***************************************************************************)
(* C19: extract_text_from_file never raises; it returns the extracted text *)
(* for a pdf, docx or txt file whose reader succeeds, and None when the    *)
(* file is None, when the extension is none of pdf/docx/txt or when the    *)
(* reader fails; no extractor is invoked for an unsupported extension.     *)
(* The extension of a name is what follows its last "."; a name without a  *)
(* "." has none.                                                           *)
(***************************************************************************)
NameExtension(name) ==
    IF \E i \in 1..Len(name) : name[i] = "." THEN FileExtension(name) ELSE ""

C21_DistinctIds ==
    \A i, j \in 1..Len(analysis_history) :
        analysis_history[i].id = analysis_history[j].id => i = j

(***************************************************************************)
(* C22: load_analysis_from_history(id) returns an entry of the history     *)
(* whose id is the argument and sets session resume_text, job_text,        *)
(* analysis_results and current_analysis_id to that entry's values; when   *)
(* no entry has that id it returns None and leaves these four values       *)
(* unchanged; the history is not modified in either case.                  *)
(***************************************************************************)
C22_LoadRestoresEntry ==
    out.kind = "load" =>
        /\ analysis_history = out.before.analysis_history
        /\ out.found <=>
               \E i \in 1..Len(analysis_history) : analysis_history[i].id = out.analysis_id
        /\ out.found =>
               /\ \E i \in 1..Len(analysis_history) : analysis_history[i] = out.entry
               /\ out.entry.id = out.analysis_id
               /\ resume_text = out.entry.resume_text
               /\ job_text = out.entry.job_text
               /\ analysis_results = Some(out.entry.analysis_results)
               /\ current_analysis_id = out.entry.id
        /\ ~out.found =>
               /\ resume_text = out.before.resume_text
               /\ job_text = out.before.job_text
               /\ analysis_results = out.before.analysis_results
               /\ current_analysis_id = out.before.current_analysis_id

\* an entry was loaded into a session that Start Fresh had emptied
C22_Witness ==
    /\ out.kind = "load"
    /\ out.found
    /\ out.before.resume_text = EmptyStr
    /\ out.before.analysis_results = None
    /\ out.before.current_analysis_id = NoId
    /\ Len(analysis_history) = HistoryCapacity
    /\ resume_text = out.entry.resume_text
    /\ Truthy(resume_text)
    /\ current_analysis_id = out.analysis_id

(***************************************************************************)
(* C23: after any sequence of saves, loading the id that the most recent   *)
(* save put into current_analysis_id restores the texts and results of     *)
(* that most recent analysis, and the "Currently viewing" lookup by        *)
(* current_analysis_id resolves to that same entry.                        *)
(***************************************************************************)
LastSaved == saved[Len(saved)]

C23_LoadMostRecent ==
    (/\ out.kind = "load"
     /\ Len(saved) > 0
     /\ out.analysis_id = LastSaved.id
     /\ out.before.current_analysis_id = LastSaved.id) =>
        /\ out.found
        /\ resume_text = LastSaved.resume_text
        /\ job_text = LastSaved.job_text
        /\ analysis_results = Some(LastSaved.analysis_results)
        /\ CurrentEntry # 0
        /\ analysis_history[CurrentEntry] = LastSaved

(***************************************************************************)
(* C24: in every reachable session state, under any interleaving of        *)
(* Analyze, Load, Re-run, Clear History and Start Fresh,                   *)
(* current_analysis_id is None or the id of an entry that is in            *)
(* analysis_history.                                                       *)
(***************************************************************************)
C24_CurrentIdInHistory ==
    \/ current_analysis_id = NoId
    \/ \E i \in 1..Len(analysis_history) : analysis_history[i].id = current_analysis_id

\* Re-run chose an older entry of a history that has evicted entries
C24_Witness ==
    /\ Len(saved) > HistoryCapacity
    /\ Len(analysis_history) = HistoryCapacity
    /\ analysis_results = None
    /\ current_analysis_id # NoId
    /\ current_analysis_id = analysis_history[1].id
    /\ current_analysis_id # analysis_history[Len(analysis_history)].id

(***************************************************************************)
(* C27: an analysis is started and saved only when session resume_text and *)
(* job_text are both non-empty: every entry of analysis_history has a      *)
(* non-empty resume_text, a non-empty job_text, resume_words >= 1 and      *)
(* job_words >= 1.                                                         *)
(***************************************************************************)
C27_EntriesHaveTexts ==
    /\ \A i \in 1..Len(analysis_history) :
            /\ Truthy(analysis_history[i].resume_text)
            /\ Truthy(analysis_history[i].job_text)
            /\ analysis_history[i].resume_words >= 1
            /\ analysis_history[i].job_words >= 1
    /\ \A i \in 1..Len(saved) : Truthy(saved[i].resume_text) /\ Truthy(saved[i].job_text)

\* an analysis was saved, and afterwards the text area holds only blanks,
\* which leaves the session without a job description
C27_Witness ==
    /\ Len(analysis_history) > 0
    /\ widgets.jd_option = "text"
    /\ Truthy(widgets.job_text_input)
    /\ ~Truthy(job_text)
    /\ Truthy(resume_text)

(***************************************************************************)
(* C25: after the user presses Load for a history entry and the rerun of   *)
(* the script that it triggers has completed, session resume_text and      *)
(* job_text are the loaded entry's resume_text and job_text, whatever the  *)
(* upload widgets and the job description text area hold.                  *)
(***************************************************************************)
C25_LoadedTextsSurviveRerun ==
    [][\A id \in 1..MaxAnalyses :
            LoadButton(id) =>
                /\ resume_text' = analysis_history[FindEntry(id)].resume_text
                /\ job_text' = analysis_history[FindEntry(id)].job_text]_vars

(***************************************************************************)
(* C26: after Start Fresh no output of an earlier analysis remains in the  *)
(* session: analysis_results, cover_letter and ats_results are cleared, so *)
(* an ATS report computed before Start Fresh is not displayed for texts    *)
(* entered after it; analysis_history is left unchanged.                   *)
(***************************************************************************)
C26_StartFreshClearsOutputs ==
    [][StartFresh =>
            /\ analysis_results' = None
            /\ cover_letter' = NoneStr
            /\ ats_results' = None
            /\ analysis_history' = analysis_history]_vars

(***************************************************************************)
(* C28: every entry of the skill vocabulary can be detected: for each      *)
(* skill and each text that contains the skill, case-insensitively, as it  *)
(* is written in the vocabulary, the occurrence count computed for the     *)
(* skill on the preprocessed text is at least 1; and a skill is counted    *)
(* only where it occurs as a whole word or phrase, not inside a longer     *)
(* word.                                                                   *)
(***************************************************************************)
Contains(text, sub) == \E i \in 1..Len(text) : StartsAt(text, sub, i)

\* the occurrences of sub in a single-spaced text that begin and end at a
\* word boundary
WholeWordCount(text, sub) ==
    Cardinality({i \in 1..Len(text) :
                    /\ StartsAt(text, sub, i)
                    /\ i = 1 \/ text[i - 1] = " "
                    /\ i + Len(sub) - 1 = Len(text) \/ text[i + Len(sub)] = " "})

\* the counts the chart data holds for a skill, 0 and 0 when it has no row
CountedFor(skill) ==
    LET rows == SelectSeq(out.chart.skills_data, LAMBDA r : r.skill = Title(skill))
    IN  IF Len(rows) = 0 THEN [resume_count |-> 0, jd_count |-> 0]
        ELSE [resume_count |-> rows[1].resume_count, jd_count |-> rows[1].jd_count]

C28_SkillsDetected ==
    out.kind = "skills" =>
        \A k \in DOMAIN CommonSkills :
            LET skill == CommonSkills[k]
                counted == CountedFor(skill)
            IN  /\ Contains(LowerText(inp.resume), skill) => counted.resume_count >= 1
                /\ Contains(LowerText(inp.jd), skill) => counted.jd_count >= 1
                /\ counted.resume_count =
                       WholeWordCount(preprocess_text_for_visualization(inp.resume), skill)
                /\ counted.jd_count =
                       WholeWordCount(preprocess_text_for_visualization(inp.jd), skill)

====
